---- MODULE Spec2Model ----
(***************************************************************************)
(* Model of the simulated trading engine of crypto-telegram-bot:           *)
(* src/trading_engine.py, run_strategy_and_update_positions.               *)
(*                                                                         *)
(* One run (an evaluation tick) iterates TRADE_SYMBOLS in list order; for  *)
(* each symbol it fetches bars, takes the latest signal of the main        *)
(* (multi-timeframe) and of the simple strategy and the last close price,  *)
(* reconciles the two signals into trade_signal and updates the module     *)
(* level POSITIONS dict and TOTAL_REALIZED_PNL.                            *)
(*                                                                         *)
(* Python floats are modelled as exact rationals <<num, den>> in lowest    *)
(* terms with den > 0; binary rounding of the float operations is not      *)
(* modelled.  The text of a message is modelled by the record of the       *)
(* values formatted into it, each as the scaled integer that the           *)
(* fixed-point format prints.                                              *)
(*                                                                         *)
(* Lines 99-101 of src/trading_engine.py repeat the tail of the            *)
(* conditional expression of lines 93-97; the model follows the            *)
(* expression of lines 93-97.                                              *)
(***************************************************************************)
EXTENDS Integers, Sequences, FiniteSets, TLC

VARIABLES
    POSITIONS,            \* symbol -> None or a Position      (module global)
    TOTAL_REALIZED_PNL,   \* portfolio realized P&L           (module global)
    pc,                   \* "idle" between runs, "loop" inside the for loop
    idx,                  \* position of the for loop in TRADE_SYMBOLS
    lines,                \* run local: the summary lines built so far
    trade_events,         \* run local: the event messages built so far
    frame,                \* run locals of the last loop body that ran
    ticks,                \* number of runs completed
    openCount,            \* history: per symbol, number of Opens performed
    closeCount,           \* history: per symbol, number of Closes performed
    closedSum,            \* history: per symbol, sum of the realized amounts
    allZero,              \* history: every trade_signal computed so far was 0
    strategy_subscriptions, \* the chat ids of the strategy registry
    jpc,                  \* push_strategy: "idle", "run" (in the run), "send"
    firings,              \* number of firings of the strategy job so far
    outbox,               \* push_strategy: the sends still to be attempted
    attempted,            \* push_strategy: the sends attempted in this firing
    lastSendOk,           \* push_strategy: the last send did not raise
    bars,                 \* simple strategy: the rows the fold has consumed
    current,              \* simple strategy: local current of generate_signals
    signal_state,         \* simple strategy: local signal_state
    row,                  \* confirmation engine: one row of the base frame
    close,                \* the close column of the base frame fetched last
    rsi_values,           \* the RSI functions' results on the close column
    trend_4h,             \* aligned["trend_4h"] of the last evaluation
    wpc,                  \* parallel bodies: per symbol, where its body is
    wread,                \* parallel bodies: per symbol, locals after the read
    forkTotal,            \* history: TOTAL_REALIZED_PNL when the bodies started
    forkRealized,         \* history: sum of the realized amounts since then
    df_15m,               \* the base frame: bars with their timestamps
    df_4h,                \* resample_ohlc of the base frame
    aligned,              \* the resampled rows aligned to the base index
    prior_extremes,       \* highest_prev and lowest_prev of the base frame
    breakouts,            \* break_up_15m and break_dn_15m of the base frame
    levels,               \* one row of generate_signals with sl and tp1
    price_subscriptions,  \* the chat ids of the price registry
    ppc,                  \* push_price: "idle" or "send" (in its send loop)
    pfirings,             \* number of firings of the price job so far
    poutbox,              \* push_price: the sends still to be attempted
    pattempted,           \* push_price: the sends attempted in this firing
    pLastSendOk,          \* push_price: the last send did not raise
    returned              \* history: the frame returned by an earlier call
                          \* of the simple strategy, once one is kept

engvars == <<POSITIONS, TOTAL_REALIZED_PNL, pc, idx, lines, trade_events, frame,
             ticks, openCount, closeCount, closedSum, allZero>>

jobvars == <<strategy_subscriptions, jpc, firings, outbox, attempted, lastSendOk>>

simvars == <<bars, current, signal_state>>

rowvars == <<row>>

framevars == <<close, rsi_values, trend_4h>>

parvars == <<wpc, wread, forkTotal, forkRealized>>

ohlcvars == <<df_15m, df_4h, aligned, prior_extremes, breakouts>>

levelvars == <<levels>>

pricevars == <<price_subscriptions, ppc, pfirings, poutbox, pattempted,
               pLastSendOk>>

callvars == <<returned>>

vars == <<engvars, jobvars, simvars, rowvars, framevars, parvars, ohlcvars,
          levelvars, pricevars, callvars>>

(* What the trading engine leaves alone *)
notEng == <<jobvars, simvars, rowvars, framevars, parvars, ohlcvars, levelvars,
            pricevars, callvars>>

(* What the bot's jobs and commands leave alone, the engine apart *)
notJob == <<simvars, rowvars, framevars, parvars, ohlcvars, levelvars,
            pricevars, callvars>>

(* What the strategies leave alone *)
notSim == <<engvars, jobvars, rowvars, framevars, parvars, ohlcvars, levelvars,
            pricevars, callvars>>

notRow == <<engvars, jobvars, simvars, framevars, parvars, ohlcvars, levelvars,
            pricevars, callvars>>

notFrame == <<engvars, jobvars, simvars, rowvars, parvars, ohlcvars, levelvars,
            pricevars, callvars>>

(* What the loop bodies run side by side leave alone, the engine apart *)
notPar == <<jobvars, simvars, rowvars, framevars, ohlcvars, levelvars,
            pricevars, callvars>>

notOhlc == <<engvars, jobvars, simvars, rowvars, framevars, parvars, levelvars,
            pricevars, callvars>>

(* What the price job and its commands leave alone *)
notPrice == <<engvars, jobvars, simvars, rowvars, framevars, parvars, ohlcvars,
              levelvars, callvars>>

(* What a call of the simple strategy leaves alone, its history apart *)
notCalls == <<engvars, jobvars, rowvars, framevars, parvars, ohlcvars,
              levelvars, pricevars>>

notLevel == <<engvars, jobvars, simvars, rowvars, framevars, parvars, ohlcvars,
            pricevars, callvars>>

hist == <<openCount, closeCount, closedSum, allZero>>

----------------------------------------------------------------------------
(* Bounds of the model *)

MaxTicks == 2

(* Program constants *)

PER_TRADE_NOTIONAL == 2000

(* The symbol list, cut to its first two symbols (the program's list goes  *)
(* on with "SOLUSDT", "BNBUSDT", "XRPUSDT").                               *)

TRADE_SYMBOLS == <<"BTCUSDT", "ETHUSDT">>

Symbols == {TRADE_SYMBOLS[i] : i \in 1..Len(TRADE_SYMBOLS)}

(* Inputs of a loop body: the latest signals and the last close price *)

Signals == {-1, 0, 1}

Prices == {0, 100, 110}

----------------------------------------------------------------------------
(* Float arithmetic, as exact rationals *)

Abs(x) == IF x < 0 THEN -x ELSE x

RECURSIVE GCD(_, _)
GCD(a, b) == IF b = 0 THEN a ELSE GCD(b, a % b)

Rat(n, d) ==
    LET g == GCD(Abs(n), Abs(d))
        s == IF d < 0 THEN -1 ELSE 1
    IN  <<(s * n) \div g, (s * d) \div g>>

Float(n) == <<n, 1>>

Zero == Float(0)

RAdd(x, y) == Rat(x[1] * y[2] + y[1] * x[2], x[2] * y[2])

RSub(x, y) == Rat(x[1] * y[2] - y[1] * x[2], x[2] * y[2])

RMul(x, y) == Rat(x[1] * y[1], x[2] * y[2])

RDiv(x, y) == Rat(x[1] * y[2], x[2] * y[1])

----------------------------------------------------------------------------
(* Fixed-point formatting f"{x:.Nf}": the integer round(x * 10^N), ties to  *)
(* even, which is the digit string the format prints.                      *)

RECURSIVE Pow10(_)
Pow10(k) == IF k = 0 THEN 1 ELSE 10 * Pow10(k - 1)

FormatFixed(x, digits) ==
    LET a    == Abs(x[1])
        d    == x[2]
        q    == a \div d
        r    == a % d
        sc   == r * Pow10(digits)
        fq   == sc \div d
        fr   == sc % d
        base == q * Pow10(digits) + fq
        up   == \/ 2 * fr > d
                \/ (2 * fr = d /\ base % 2 = 1)
        mag  == IF up THEN base + 1 ELSE base
    IN  IF x[1] < 0 THEN -mag ELSE mag

----------------------------------------------------------------------------
(* Position dataclass and the empty entry of the book *)

None == [side |-> "none"]

Position(symbol, side, entry_price, qty, notional) ==
    [symbol       |-> symbol,
     side         |-> side,
     entry_price  |-> entry_price,
     qty          |-> qty,
     notional     |-> notional,
     realized_pnl |-> Zero]

----------------------------------------------------------------------------
(* The Trade Decision Policy: trade with the simple strategy's latest      *)
(* signal only when it is non-zero and equal to the main strategy's.       *)

trade_signal_Permissive(simple_last_signal, main_last_signal) ==
    simple_last_signal

trade_signal(simple_last_signal, main_last_signal) ==
    IF simple_last_signal # 0 /\ simple_last_signal = main_last_signal
    THEN simple_last_signal
    ELSE 0

(* Floating P&L of a held position at last_price *)

unreal_pnl(pos, last_price) ==
    IF pos = None THEN Zero
    ELSE IF pos.side = "long"
         THEN RMul(RSub(last_price, pos.entry_price), pos.qty)
         ELSE RMul(RSub(pos.entry_price, last_price), pos.qty)

(* Close condition: a position is held and the signal is 0 or opposite *)

ShouldClose_Always(pos, ts) == pos # None

ShouldClose(pos, ts) ==
    /\ pos # None
    /\ \/ ts = 0
       \/ (ts = 1 /\ pos.side = "short")
       \/ (ts = -1 /\ pos.side = "long")

(* Realized amount of closing pos at last_price *)

Realized_LongOnly(pos, last_price) ==
    RMul(RSub(last_price, pos.entry_price), pos.qty)

Realized(pos, last_price) ==
    IF pos.side = "long"
    THEN RMul(RSub(last_price, pos.entry_price), pos.qty)
    ELSE RMul(RSub(pos.entry_price, last_price), pos.qty)

(* pos.realized_pnl += realized *)

AddRealized(pos, realized) ==
    [pos EXCEPT !.realized_pnl = RAdd(pos.realized_pnl, realized)]

(* TOTAL_REALIZED_PNL += realized *)

AddTotal_Overwrite(total, realized) == realized

AddTotal(total, realized) == RAdd(total, realized)

Upper(side) == IF side = "long" THEN "LONG" ELSE "SHORT"

(* The close message: values as the format specifiers print them *)

CloseMsg(symbol, pos, last_price, realized, total) ==
    [kind     |-> "close",
     symbol   |-> symbol,
     side     |-> Upper(pos.side),
     price    |-> FormatFixed(last_price, 4),
     realized |-> FormatFixed(realized, 2),
     pos_cum  |-> FormatFixed(pos.realized_pnl, 2),
     total    |-> FormatFixed(total, 2)]

(* POSITIONS[symbol] = None; pos = None *)

AfterClose_Keep(pos) == pos

AfterClose(pos) == None

(* Open condition: no position (already, or after the close) and a signal *)

ShouldOpen_AnyBook(pos, ts) == ts # 0

ShouldOpen_AnySignal(pos, ts) == pos = None

ShouldOpen(pos, ts) == pos = None /\ ts # 0

OpenSide(ts) == IF ts = 1 THEN "long" ELSE "short"

(* qty = notional / last_price raises ZeroDivisionError when last_price is 0 *)

DivisionRaises(last_price) == last_price = Zero

OpenPosition_NoDivision(symbol, ts, last_price) ==
    Position(symbol, OpenSide(ts), last_price,
             Float(PER_TRADE_NOTIONAL), Float(PER_TRADE_NOTIONAL))

OpenPosition(symbol, ts, last_price) ==
    Position(symbol, OpenSide(ts), last_price,
             RDiv(Float(PER_TRADE_NOTIONAL), last_price),
             Float(PER_TRADE_NOTIONAL))

OpenMsg(symbol, pos, last_price) ==
    [kind     |-> "open",
     symbol   |-> symbol,
     side     |-> Upper(pos.side),
     price    |-> FormatFixed(last_price, 4),
     notional |-> FormatFixed(pos.notional, 2),
     qty      |-> FormatFixed(pos.qty, 6)]

(* The holding line of the report: the position now in the book *)

HoldingLine(pos, last_price) ==
    IF pos # None
    THEN [kind     |-> "holding",
          side     |-> Upper(pos.side),
          entry    |-> FormatFixed(pos.entry_price, 4),
          unreal   |-> FormatFixed(unreal_pnl(pos, last_price), 2),
          realized |-> FormatFixed(pos.realized_pnl, 2)]
    ELSE [kind |-> "flat"]

(***************************************************************************)
(* The book update of one loop body, lines 103-160: from the book entry    *)
(* pos0 and the portfolio total, with signal ts at last_price.             *)
(*   closed, realized, closeMsg : the close step, lines 113-138            *)
(*   raised                     : ZeroDivisionError at line 144            *)
(*   opened, openMsg            : the open step, lines 140-160             *)
(*   pos, total                 : POSITIONS[symbol] and the total after    *)
(***************************************************************************)
UpdateBook(symbol, pos0, total0, ts, last_price) ==
    LET closed   == ShouldClose(pos0, ts)
        realized == IF closed THEN Realized(pos0, last_price) ELSE Zero
        posC     == IF closed THEN AddRealized(pos0, realized) ELSE pos0
        total1   == IF closed THEN AddTotal(total0, realized) ELSE total0
        closeMsg == IF closed
                    THEN <<CloseMsg(symbol, posC, last_price, realized, total1)>>
                    ELSE <<>>
        pos1     == IF closed THEN AfterClose(posC) ELSE pos0
        opening  == ShouldOpen(pos1, ts)
        raised   == opening /\ DivisionRaises(last_price)
        opened   == opening /\ ~raised
        pos2     == IF opened THEN OpenPosition(symbol, ts, last_price) ELSE pos1
        openMsg  == IF opened THEN <<OpenMsg(symbol, pos2, last_price)>> ELSE <<>>
    IN  [closed   |-> closed,
         realized |-> realized,
         raised   |-> raised,
         opened   |-> opened,
         pos      |-> pos2,
         total    |-> total1,
         events   |-> closeMsg \o openMsg]

----------------------------------------------------------------------------
(* Run locals of the loop body.  A local that no body has assigned yet     *)
(* holds a placeholder the code never reads.  at is the place where the    *)
(* last body stopped: "fetch", "main", "simple" (the call that raised),    *)
(* "open" (line 144 raised) or "end" (the body ran to its end).            *)

Unbound ==
    [symbol |-> "", main_last_signal |-> 0, simple_last_signal |-> 0,
     last_price |-> Zero, trade_signal |-> 0, at |-> "none"]

Bound(symbol, m, s, p, ts, at) ==
    [symbol |-> symbol, main_last_signal |-> m, simple_last_signal |-> s,
     last_price |-> p, trade_signal |-> ts, at |-> at]

HeaderLines == <<[kind |-> "title"], [kind |-> "capital"]>>

ErrorLine(symbol) == [kind |-> "error", symbol |-> symbol]

(* The report block of a symbol; its price and signal lines, which only    *)
(* print the inputs, are left out.                                         *)
ReportLines(symbol, f, u) ==
    <<[kind    |-> "report",
       symbol  |-> symbol,
       events  |-> u.events,
       holding |-> HoldingLine(u.pos, f.last_price)],
      [kind |-> "blank"]>>

TotalLine(total) == [kind |-> "total", total |-> FormatFixed(total, 2)]

InLoop == pc = "loop" /\ idx <= Len(TRADE_SYMBOLS)

(* History of the book update u of symbol with signal ts *)
Record(symbol, ts, u) ==
    /\ openCount' = IF u.opened
                    THEN [openCount EXCEPT ![symbol] = @ + 1]
                    ELSE openCount
    /\ closeCount' = IF u.closed
                     THEN [closeCount EXCEPT ![symbol] = @ + 1]
                     ELSE closeCount
    /\ closedSum' = IF u.closed
                    THEN [closedSum EXCEPT ![symbol] = RAdd(@, u.realized)]
                    ELSE closedSum
    /\ allZero' = (allZero /\ ts = 0)

----------------------------------------------------------------------------
(* Before the first call of a strategy there is no row and no result *)
NoRow == [evaluated |-> FALSE]

NoRead == [read |-> FALSE]

NoCall == [kept |-> FALSE]

NoColumns == [up |-> <<>>, dn |-> <<>>]

NoRsi == [multi_tf |-> <<>>, simple |-> <<>>, macd_rsi |-> <<>>, trend |-> <<>>]

Init ==
    /\ POSITIONS = [s \in Symbols |-> None]
    /\ TOTAL_REALIZED_PNL = Zero
    /\ pc = "idle"
    /\ idx = 1
    /\ lines = <<>>
    /\ trade_events = <<>>
    /\ frame = Unbound
    /\ ticks = 0
    /\ openCount = [s \in Symbols |-> 0]
    /\ closeCount = [s \in Symbols |-> 0]
    /\ closedSum = [s \in Symbols |-> Zero]
    /\ allZero = TRUE
    /\ strategy_subscriptions = {}
    /\ jpc = "idle"
    /\ firings = 0
    /\ outbox = <<>>
    /\ attempted = <<>>
    /\ lastSendOk = TRUE
    /\ bars = <<>>
    /\ current = 0
    /\ signal_state = <<>>
    /\ row = NoRow
    /\ close = <<>>
    /\ rsi_values = NoRsi
    /\ trend_4h = <<>>
    /\ wpc = [s \in Symbols |-> "idle"]
    /\ wread = [s \in Symbols |-> NoRead]
    /\ forkTotal = Zero
    /\ forkRealized = Zero
    /\ df_15m = <<>>
    /\ df_4h = <<>>
    /\ aligned = <<>>
    /\ prior_extremes = NoColumns
    /\ breakouts = NoColumns
    /\ levels = NoRow
    /\ price_subscriptions = {}
    /\ ppc = "idle"
    /\ pfirings = 0
    /\ poutbox = <<>>
    /\ pattempted = <<>>
    /\ pLastSendOk = TRUE
    /\ returned = NoCall

(* Entry of run_strategy_and_update_positions, lines 58-64 *)
RunEntry ==
    /\ pc = "idle"
    /\ pc' = "loop"
    /\ idx' = 1
    /\ lines' = HeaderLines
    /\ trade_events' = <<>>
    /\ frame' = Unbound
    /\ UNCHANGED <<POSITIONS, TOTAL_REALIZED_PNL, ticks, hist>>

RunStart == ticks < MaxTicks /\ RunEntry /\ UNCHANGED notEng

SymbolFetchError_Retry ==
    /\ InLoop
    /\ frame' = [frame EXCEPT !.symbol = TRADE_SYMBOLS[idx], !.at = "fetch"]
    /\ lines' = Append(lines, ErrorLine(TRADE_SYMBOLS[idx]))
    /\ idx' = idx
    /\ UNCHANGED <<POSITIONS, TOTAL_REALIZED_PNL, pc, trade_events, ticks, hist>>
    /\ UNCHANGED notEng

SymbolFetchError_Abort ==
    /\ InLoop
    /\ frame' = [frame EXCEPT !.symbol = TRADE_SYMBOLS[idx], !.at = "fetch"]
    /\ lines' = Append(lines, ErrorLine(TRADE_SYMBOLS[idx]))
    /\ idx' = Len(TRADE_SYMBOLS) + 1
    /\ UNCHANGED <<POSITIONS, TOTAL_REALIZED_PNL, pc, trade_events, ticks, hist>>
    /\ UNCHANGED notEng

(* A loop body in which the fetch or a strategy raises, lines 68-80: the   *)
(* except clause appends the error line.  stage says which call raised;    *)
(* main_last_signal is assigned before the simple strategy runs.           *)
SymbolFetchError ==
    /\ InLoop
    /\ \E stage \in {"fetch", "main", "simple"}, m \in Signals :
         frame' = [frame EXCEPT
                     !.symbol = TRADE_SYMBOLS[idx],
                     !.main_last_signal = IF stage = "simple" THEN m ELSE @,
                     !.at = stage]
    /\ lines' = Append(lines, ErrorLine(TRADE_SYMBOLS[idx]))
    /\ idx' = idx + 1
    /\ UNCHANGED <<POSITIONS, TOTAL_REALIZED_PNL, pc, trade_events, ticks, hist>>
    /\ UNCHANGED notEng

BodyEffect_ClearOthers(m, s, p, at) ==
    LET symbol == TRADE_SYMBOLS[idx]
        ts     == trade_signal(s, m)
        f      == Bound(symbol, m, s, Float(p), ts, at)
        u      == UpdateBook(symbol, POSITIONS[symbol], TOTAL_REALIZED_PNL,
                             ts, Float(p))
    IN  /\ u.raised = (at = "open")
        /\ frame' = f
        /\ POSITIONS' = [x \in Symbols |-> IF x = symbol THEN u.pos ELSE None]
        /\ TOTAL_REALIZED_PNL' = u.total
        /\ trade_events' = trade_events \o u.events
        /\ lines' = IF u.raised
                    THEN Append(lines, ErrorLine(symbol))
                    ELSE lines \o ReportLines(symbol, f, u)
        /\ Record(symbol, ts, u)
        /\ idx' = idx + 1
        /\ UNCHANGED <<pc, ticks>>

BodyEffect_EventsFirst(m, s, p, at) ==
    LET symbol == TRADE_SYMBOLS[idx]
        ts     == trade_signal(s, m)
        f      == Bound(symbol, m, s, Float(p), ts, at)
        u      == UpdateBook(symbol, POSITIONS[symbol], TOTAL_REALIZED_PNL,
                             ts, Float(p))
    IN  /\ u.raised = (at = "open")
        /\ frame' = f
        /\ POSITIONS' = [POSITIONS EXCEPT ![symbol] = u.pos]
        /\ TOTAL_REALIZED_PNL' = u.total
        /\ trade_events' = u.events \o trade_events
        /\ lines' = IF u.raised
                    THEN Append(lines, ErrorLine(symbol))
                    ELSE lines \o ReportLines(symbol, f, u)
        /\ Record(symbol, ts, u)
        /\ idx' = idx + 1
        /\ UNCHANGED <<pc, ticks>>

(* The loop body from line 81 on, for the latest signals m (main) and s    *)
(* (simple) and the last close p.  at = "end": the body runs to its end    *)
(* and appends the report block; at = "open": line 144 raises              *)
(* ZeroDivisionError, what the close step did before stays, the report     *)
(* lines of the symbol are dropped and the except clause appends the       *)
(* error line.                                                             *)
BodyEffect(m, s, p, at) ==
    LET symbol == TRADE_SYMBOLS[idx]
        ts     == trade_signal(s, m)
        f      == Bound(symbol, m, s, Float(p), ts, at)
        u      == UpdateBook(symbol, POSITIONS[symbol], TOTAL_REALIZED_PNL,
                             ts, Float(p))
    IN  /\ u.raised = (at = "open")
        /\ frame' = f
        /\ POSITIONS' = [POSITIONS EXCEPT ![symbol] = u.pos]
        /\ TOTAL_REALIZED_PNL' = u.total
        /\ trade_events' = trade_events \o u.events
        /\ lines' = IF u.raised
                    THEN Append(lines, ErrorLine(symbol))
                    ELSE lines \o ReportLines(symbol, f, u)
        /\ Record(symbol, ts, u)
        /\ idx' = idx + 1
        /\ UNCHANGED <<pc, ticks>>

(* A loop body that runs to its end, lines 68-179 *)
SymbolUpdate ==
    /\ InLoop
    /\ \E m \in Signals, s \in Signals, p \in Prices : BodyEffect(m, s, p, "end")
    /\ UNCHANGED notEng

(* A loop body in which the open step raises ZeroDivisionError, line 144 *)
SymbolOpenError ==
    /\ InLoop
    /\ \E m \in Signals, s \in Signals, p \in Prices : BodyEffect(m, s, p, "open")
    /\ UNCHANGED notEng

(* After the loop, lines 183-185: the total line, and the return of        *)
(* (summary_text, trade_events), which lines and trade_events then hold.   *)
RunExit ==
    /\ pc = "loop"
    /\ idx > Len(TRADE_SYMBOLS)
    /\ lines' = Append(lines, TotalLine(TOTAL_REALIZED_PNL))
    /\ pc' = "idle"
    /\ ticks' = ticks + 1
    /\ UNCHANGED <<POSITIONS, TOTAL_REALIZED_PNL, idx, trade_events, frame, hist>>

RunReturn == RunExit /\ UNCHANGED notEng

Next ==
    \/ RunStart
    \/ SymbolFetchError
    \/ SymbolUpdate
    \/ SymbolOpenError
    \/ RunReturn

Spec == Init /\ [][Next]_vars

(* A started run keeps executing: the for loop of line 66 and the return   *)
(* of lines 183-185 are steps of one synchronous call, which nothing       *)
(* suspends.  When the next run starts is the scheduler's choice.          *)
LoopStep == SymbolFetchError \/ SymbolUpdate \/ SymbolOpenError \/ RunReturn

FairSpec == Spec /\ WF_vars(LoopStep)

----------------------------------------------------------------------------
(* Vocabulary of the properties.  In a step of a loop body, cur is the     *)
(* symbol processed, held its book entry before the step, d the decision   *)
(* and price the last price the body computed.                             *)

IsFlat(s)  == POSITIONS[s] = None
IsLong(s)  == POSITIONS[s] # None /\ POSITIONS[s].side = "long"
IsShort(s) == POSITIONS[s] # None /\ POSITIONS[s].side = "short"

SideSign(pos) == IF pos.side = "long" THEN 1 ELSE -1

Body    == InLoop /\ idx' = idx + 1
Decided == Body /\ frame'.at \in {"open", "end"}
cur     == TRADE_SYMBOLS[idx]
held    == POSITIONS[cur]
d       == frame'.trade_signal
price   == frame'.last_price

Held    == held # None
Opposes == Held /\ d = -SideSign(held)
Agrees  == Held /\ d = SideSign(held)
Closes  == Held /\ (d = 0 \/ Opposes)

ExpRealized ==
    IF held.side = "long"
    THEN RMul(RSub(price, held.entry_price), held.qty)
    ELSE RMul(RSub(held.entry_price, price), held.qty)

ExpOpened ==
    [symbol       |-> cur,
     side         |-> IF d = 1 THEN "long" ELSE "short",
     entry_price  |-> price,
     qty          |-> RDiv(Float(PER_TRADE_NOTIONAL), price),
     notional     |-> Float(PER_TRADE_NOTIONAL),
     realized_pnl |-> Zero]

Added == SubSeq(trade_events', Len(trade_events) + 1, Len(trade_events'))

IsCloseEvent(ev) ==
    /\ ev.kind = "close"
    /\ ev.symbol = cur
    /\ ev.side = Upper(held.side)
    /\ ev.price = FormatFixed(price, 4)
    /\ ev.realized = FormatFixed(ExpRealized, 2)

IsOpenEvent(ev) ==
    /\ ev.kind = "open"
    /\ ev.symbol = cur
    /\ ev.side = Upper(ExpOpened.side)
    /\ ev.price = FormatFixed(price, 4)
    /\ ev.qty = FormatFixed(ExpOpened.qty, 6)

EventCount(evs, s, kind) ==
    Cardinality({i \in DOMAIN evs : evs[i].symbol = s /\ evs[i].kind = kind})

LastEvent == trade_events[Len(trade_events)]

RECURSIVE RSum(_, _)
RSum(f, S) ==
    IF S = {} THEN Zero
    ELSE LET s == CHOOSE x \in S : TRUE
         IN  RAdd(f[s], RSum(f, S \ {s}))

AfterBody == pc = "loop" /\ idx > 1 /\ frame.at \in {"open", "end"}

AfterFullBody == pc = "loop" /\ idx > 1 /\ frame.at = "end"

----------------------------------------------------------------------------
(* C1: in every reachable state each symbol is in exactly one of Flat,     *)
(* Long, Short: its book entry is empty or one position of that symbol     *)
(* with side long or short, and the Opens performed for the symbol exceed  *)
(* its Closes by one exactly when a position is held, so no position is    *)
(* opened on top of a held one.                                            *)
C1_OnePositionPerSymbol ==
    \A s \in Symbols :
        /\ (IF IsFlat(s) THEN 1 ELSE 0) + (IF IsLong(s) THEN 1 ELSE 0)
             + (IF IsShort(s) THEN 1 ELSE 0) = 1
        /\ ~IsFlat(s) => POSITIONS[s].symbol = s
        /\ openCount[s] - closeCount[s] = (IF IsFlat(s) THEN 0 ELSE 1)

C1_Witness ==
    /\ IsLong("BTCUSDT")
    /\ IsShort("ETHUSDT")
    /\ closeCount["ETHUSDT"] = 1
    /\ openCount["ETHUSDT"] = 2

(* C2: close rule.  In a loop body that computes decision d and price, if  *)
(* the symbol holds a position and d is 0 or opposite to the held side,    *)
(* the position is closed at price: the realized amount (price - entry) *  *)
(* qty for long, (entry - price) * qty for short is added to the total, a  *)
(* Close event with these values is the next event emitted, and the held   *)
(* position is gone before the open step: the entry is empty afterwards,   *)
(* or holds the position the open step opened at price.                    *)
C2_CloseRule ==
    [][ (Decided /\ Closes) =>
            /\ TOTAL_REALIZED_PNL' = RAdd(TOTAL_REALIZED_PNL, ExpRealized)
            /\ closeCount'[cur] = closeCount[cur] + 1
            /\ closedSum'[cur] = RAdd(closedSum[cur], ExpRealized)
            /\ Len(Added) >= 1
            /\ IsCloseEvent(Added[1])
            /\ POSITIONS'[cur] = IF d # 0 /\ price # Zero THEN ExpOpened ELSE None
      ]_vars

C2_Witness ==
    /\ AfterFullBody
    /\ frame.trade_signal = 0
    /\ IsFlat(frame.symbol)
    /\ trade_events # <<>>
    /\ LastEvent.kind = "close"
    /\ LastEvent.symbol = frame.symbol
    /\ LastEvent.side = "SHORT"
    /\ LastEvent.realized > 0

(* C3: open rule.  In a loop body with decision d # 0 and a price other    *)
(* than 0, if the symbol is Flat before the body or is closed by it, the   *)
(* book entry afterwards is a new position with side long if d = 1 else    *)
(* short, entry price = price, qty = PER_TRADE_NOTIONAL / price, and an    *)
(* Open event is the last event emitted; when d opposes a held side the    *)
(* body emits exactly the Close and then the Open.                         *)
C3_OpenRule ==
    [][ (Decided /\ d # 0 /\ price # Zero /\ (~Held \/ Opposes)) =>
            /\ POSITIONS'[cur] = ExpOpened
            /\ openCount'[cur] = openCount[cur] + 1
            /\ frame'.at = "end"
            /\ IF Held
               THEN /\ Len(Added) = 2
                    /\ IsCloseEvent(Added[1])
                    /\ IsOpenEvent(Added[2])
               ELSE /\ Len(Added) = 1
                    /\ IsOpenEvent(Added[1])
      ]_vars

C3_Witness ==
    /\ AfterFullBody
    /\ Len(trade_events) >= 2
    /\ trade_events[Len(trade_events) - 1].kind = "close"
    /\ trade_events[Len(trade_events) - 1].symbol = frame.symbol
    /\ trade_events[Len(trade_events) - 1].side = "LONG"
    /\ LastEvent.kind = "open"
    /\ LastEvent.symbol = frame.symbol
    /\ IsShort(frame.symbol)
    /\ POSITIONS[frame.symbol].qty = <<200, 11>>

C5_HoldUnchanged ==
    [][ /\ \A s \in Symbols :
              POSITIONS'[s] # None =>
                  /\ POSITIONS'[s].notional = Float(PER_TRADE_NOTIONAL)
                  /\ POSITIONS'[s].qty =
                         RDiv(POSITIONS'[s].notional, POSITIONS'[s].entry_price)
        /\ (Decided /\ Agrees) => POSITIONS'[cur] = held
      ]_vars

C5_Witness ==
    /\ AfterFullBody
    /\ ~IsFlat(frame.symbol)
    /\ frame.trade_signal = SideSign(POSITIONS[frame.symbol])
    /\ frame.last_price # POSITIONS[frame.symbol].entry_price
    /\ frame.last_price # Zero

(* C6: in one run each symbol has at most one Close and at most one Open,  *)
(* and a loop body whose decision has the sign of the held side performs   *)
(* neither: it emits no event and leaves the book as it was.               *)
C6_AtMostOneTransition ==
    [][ /\ \A s \in Symbols :
              /\ EventCount(trade_events', s, "close") <= 1
              /\ EventCount(trade_events', s, "open") <= 1
              /\ closeCount'[s] - closeCount[s] \in {0, 1}
              /\ openCount'[s] - openCount[s] \in {0, 1}
        /\ (Decided /\ Agrees) =>
              /\ trade_events' = trade_events
              /\ POSITIONS' = POSITIONS
              /\ openCount' = openCount
              /\ closeCount' = closeCount
      ]_vars

C6_Witness ==
    /\ pc = "loop"
    /\ idx > Len(TRADE_SYMBOLS)
    /\ frame.at = "end"
    /\ frame.trade_signal # 0
    /\ trade_events = <<>>
    /\ \A s \in Symbols : ~IsFlat(s)
    /\ \A i \in DOMAIN lines : lines[i].kind # "error"

(* C7: realized P&L changes only in a loop body that closes.  The total    *)
(* and the per-symbol sums change only in a body in which a position is    *)
(* held and the decision is 0 or opposite, and which emits a Close event;  *)
(* and the realized figure of a position that stays in the book does not   *)
(* change.                                                                 *)
C7_RealizedOnlyOnClose ==
    [][ /\ (TOTAL_REALIZED_PNL' # TOTAL_REALIZED_PNL \/ closedSum' # closedSum) =>
              /\ Decided /\ Closes
              /\ Len(Added) >= 1
              /\ Added[1].kind = "close"
        /\ \A s \in Symbols :
              (POSITIONS[s] # None /\ POSITIONS'[s] # None
                 /\ ~(Decided /\ Closes /\ s = cur)) =>
                  POSITIONS'[s].realized_pnl = POSITIONS[s].realized_pnl
        /\ \A s \in Symbols :
              (POSITIONS[s] = None /\ POSITIONS'[s] # None) =>
                  POSITIONS'[s].realized_pnl = Zero
      ]_vars

C7_Witness ==
    /\ AfterFullBody
    /\ TOTAL_REALIZED_PNL # Zero
    /\ ~IsFlat(frame.symbol)
    /\ closeCount[frame.symbol] = 0
    /\ openCount[frame.symbol] = 1
    /\ POSITIONS[frame.symbol].entry_price = frame.last_price
    /\ LastEvent.kind = "open"
    /\ LastEvent.symbol = frame.symbol

(* C8: the per-symbol realized total accumulates over the symbol's Closes: *)
(* the realized figure carried by the symbol's position equals the sum of  *)
(* the realized amounts of all Closes of the symbol so far, also after the *)
(* next position is opened.                                                *)
C8_PerSymbolTotalAccumulates ==
    \A s \in Symbols :
        POSITIONS[s] # None => POSITIONS[s].realized_pnl = closedSum[s]

(* C9: the portfolio total equals the sum of the realized amounts of all   *)
(* Closes performed so far, over all symbols.                              *)
C9_TotalIsSumOfCloses ==
    TOTAL_REALIZED_PNL = RSum(closedSum, Symbols)

C9_Witness ==
    /\ \A s \in Symbols : closeCount[s] >= 1 /\ closedSum[s] # Zero
    /\ TOTAL_REALIZED_PNL # Zero
    /\ TOTAL_REALIZED_PNL # closedSum["BTCUSDT"]
    /\ TOTAL_REALIZED_PNL # closedSum["ETHUSDT"]

(* C10: while every decision computed since process start is 0, no Open    *)
(* or Close has been performed, no event has been emitted, every symbol is *)
(* Flat and the total is 0, whatever the prices and the number of runs.    *)
C10_ZeroStreamIdempotent ==
    allZero =>
        /\ \A s \in Symbols :
              IsFlat(s) /\ openCount[s] = 0 /\ closeCount[s] = 0
                        /\ closedSum[s] = Zero
        /\ TOTAL_REALIZED_PNL = Zero
        /\ trade_events = <<>>

C10_Witness ==
    /\ allZero
    /\ ticks >= 1
    /\ AfterFullBody
    /\ idx > Len(TRADE_SYMBOLS)
    /\ frame.simple_last_signal # 0
    /\ frame.last_price # Zero
    /\ \A i \in DOMAIN lines : lines[i].kind # "error"


----------------------------------------------------------------------------
(***************************************************************************)
(* One symbol driven through a given sequence of decisions and prices.     *)
(* Run k of the scenario processes BTCUSDT with any pair of latest signals *)
(* from which line 93 computes the k-th decision, at the k-th price; the   *)
(* other symbol of the list is processed in the same run with decision 0   *)
(* and stays Flat, so the portfolio total is the scenario symbol's.        *)
(***************************************************************************)
ScenarioDecisions == <<1, 1, -1, 0, -1>>

ScenarioPrices == <<100, 105, 95, 90, 110>>

ScenarioStart ==
    ticks < Len(ScenarioDecisions) /\ RunEntry /\ UNCHANGED notEng

ScenarioBody ==
    /\ InLoop
    /\ idx = 1
    /\ \E m \in Signals, s \in Signals :
         /\ trade_signal(s, m) = ScenarioDecisions[ticks + 1]
         /\ BodyEffect(m, s, ScenarioPrices[ticks + 1], "end")
    /\ UNCHANGED notEng

ScenarioOther ==
    /\ InLoop
    /\ idx > 1
    /\ \E m \in Signals, s \in Signals, p \in Prices :
         /\ trade_signal(s, m) = 0
         /\ BodyEffect(m, s, p, "end")
    /\ UNCHANGED notEng

NextScenario == ScenarioStart \/ ScenarioBody \/ ScenarioOther \/ RunReturn

SpecScenario == Init /\ [][NextScenario]_vars

(* Scenario ticks whose body for the scenario symbol has run *)
ScenarioDone == IF pc = "loop" /\ idx > 1 THEN ticks + 1 ELSE ticks

(* The events of the latest scenario tick are in trade_events *)
ScenarioEventsIn == ScenarioDone >= 1 /\ ~(pc = "loop" /\ idx = 1)

(* C11: end-to-end scenario.  Starting Flat with notional 2000, decisions  *)
(* [+1,+1,-1,0,-1] at prices [100,105,95,90,110] give: after tick 1 a Long *)
(* at 100 with qty 20 and one Open event; after tick 2 the same position   *)
(* and no event; after tick 3 a Short at 95 with qty 2000/95, a Close Long *)
(* event with realized -100.00 followed by an Open Short event, and total  *)
(* -100; after tick 4 Flat, one Close Short event with realized            *)
(* (95-90)*(2000/95), printed 105.26, and total -100 + that amount,        *)
(* printed 5.26; after tick 5 a Short at 110 with qty 2000/110, one Open   *)
(* event, and the total unchanged.                                         *)
C11_Scenario ==
    LET b     == POSITIONS["BTCUSDT"]
        q95   == RDiv(Float(2000), Float(95))
        r4    == RMul(RSub(Float(95), Float(90)), q95)
        t4    == RAdd(Float(-100), r4)
        kinds == [i \in DOMAIN trade_events |->
                    <<trade_events[i].kind, trade_events[i].symbol,
                      trade_events[i].side>>]
    IN  /\ ScenarioDone = 0 => b = None /\ TOTAL_REALIZED_PNL = Zero
        /\ ScenarioDone \in {1, 2} =>
              /\ b # None
              /\ b.side = "long" /\ b.entry_price = Float(100)
              /\ b.qty = Float(20) /\ b.notional = Float(2000)
              /\ TOTAL_REALIZED_PNL = Zero
        /\ (ScenarioDone = 1 /\ ScenarioEventsIn) =>
              /\ kinds = <<(<<"open", "BTCUSDT", "LONG">>)>>
              /\ trade_events[1].qty = 20000000
        /\ (ScenarioDone = 2 /\ ScenarioEventsIn) => trade_events = <<>>
        /\ ScenarioDone = 3 =>
              /\ b # None
              /\ b.side = "short" /\ b.entry_price = Float(95)
              /\ b.qty = q95
              /\ TOTAL_REALIZED_PNL = Float(-100)
        /\ (ScenarioDone = 3 /\ ScenarioEventsIn) =>
              /\ kinds = << <<"close", "BTCUSDT", "LONG">>,
                            <<"open", "BTCUSDT", "SHORT">> >>
              /\ trade_events[1].realized = -10000
              /\ trade_events[2].qty = FormatFixed(q95, 6)
        /\ ScenarioDone = 4 =>
              /\ b = None
              /\ TOTAL_REALIZED_PNL = t4
              /\ FormatFixed(TOTAL_REALIZED_PNL, 2) = 526
        /\ (ScenarioDone = 4 /\ ScenarioEventsIn) =>
              /\ kinds = <<(<<"close", "BTCUSDT", "SHORT">>)>>
              /\ trade_events[1].realized = FormatFixed(r4, 2)
              /\ trade_events[1].realized = 10526
        /\ ScenarioDone = 5 =>
              /\ b # None
              /\ b.side = "short" /\ b.entry_price = Float(110)
              /\ b.qty = RDiv(Float(2000), Float(110))
              /\ TOTAL_REALIZED_PNL = t4
        /\ (ScenarioDone = 5 /\ ScenarioEventsIn) =>
              kinds = <<(<<"open", "BTCUSDT", "SHORT">>)>>

C11_Witness ==
    /\ pc = "idle"
    /\ ticks = 5
    /\ IsShort("BTCUSDT")
    /\ POSITIONS["BTCUSDT"].qty = <<200, 11>>
    /\ closeCount["BTCUSDT"] = 2
    /\ openCount["BTCUSDT"] = 3
    /\ TOTAL_REALIZED_PNL = <<100, 19>>

----------------------------------------------------------------------------
(* Properties of failures and of the life of a position, over Spec *)

Failed == Body /\ frame'.at # "end"

(* The symbols of the per-symbol report blocks and error lines, in order *)
IsSymbolLine(l) == l.kind \in {"report", "error"}

SymbolsOf(ls) ==
    LET sel == SelectSeq(ls, IsSymbolLine)
    IN  [i \in DOMAIN sel |-> sel[i].symbol]

C13_FailureIsolation ==
    [][ /\ Failed =>
              /\ lines' = Append(lines, ErrorLine(cur))
              /\ pc' = "loop"
              /\ idx' = idx + 1
        /\ pc = "loop" =>
              SymbolsOf(lines') = SubSeq(TRADE_SYMBOLS, 1, idx' - 1)
        /\ (pc = "loop" /\ pc' = "idle") =>
              /\ SymbolsOf(lines') = TRADE_SYMBOLS
              /\ lines'[Len(lines')].kind = "total"
      ]_vars

C13_Witness ==
    /\ pc = "idle"
    /\ ticks >= 1
    /\ Len(lines) >= 4
    /\ lines[3] = ErrorLine("BTCUSDT")
    /\ lines[4].kind = "report"
    /\ lines[4].symbol = "ETHUSDT"
    /\ lines[4].events # <<>>
    /\ IsFlat("BTCUSDT")
    /\ ~IsFlat("ETHUSDT")

(* C19: lifecycle, necessary conditions.  In every step and for every      *)
(* symbol s: the entry of s goes from Flat to a position only in a loop    *)
(* body of s whose decision is not 0; it goes from a position to Flat only *)
(* in a loop body of s that closes it (decision 0 or opposite to the held  *)
(* side) and emits the Close event; and a held position is replaced or     *)
(* altered only by the close-then-open of an opposite decision.            *)
C19_Lifecycle ==
    [][ \A s \in Symbols :
          /\ (POSITIONS[s] = None /\ POSITIONS'[s] # None) =>
                (Decided /\ s = cur /\ d # 0)
          /\ (POSITIONS[s] # None /\ POSITIONS'[s] = None) =>
                /\ Decided
                /\ s = cur
                /\ Closes
                /\ Len(Added) >= 1
                /\ IsCloseEvent(Added[1])
          /\ (POSITIONS[s] # None /\ POSITIONS'[s] # None
                /\ POSITIONS'[s] # POSITIONS[s]) =>
                /\ Decided
                /\ s = cur
                /\ Opposes
                /\ Len(Added) = 2
                /\ IsCloseEvent(Added[1])
                /\ IsOpenEvent(Added[2])
      ]_vars

C19_Witness ==
    /\ pc = "loop"
    /\ idx > 1
    /\ frame.at = "open"
    /\ frame.trade_signal = 1
    /\ IsFlat(frame.symbol)
    /\ openCount[frame.symbol] = 1
    /\ closeCount[frame.symbol] = 1
    /\ trade_events # <<>>
    /\ LastEvent.kind = "close"
    /\ LastEvent.symbol = frame.symbol

(* The book entry and the events a loop body would have produced had the   *)
(* main strategy's latest signal been m2, all else equal                   *)
OutcomeWithMain(m2) ==
    LET u2 == UpdateBook(cur, held, TOTAL_REALIZED_PNL,
                         trade_signal(frame'.simple_last_signal, m2), price)
    IN  <<u2.pos, u2.events>>

----------------------------------------------------------------------------
(***************************************************************************)
(* The scheduled strategy job, bot/jobs.py, and the commands that change   *)
(* the strategy registry, bot/commands.py.  The callbacks run on one       *)
(* asyncio loop: a callback runs without interruption up to an await, so   *)
(* push_strategy runs from its entry to its first send_message as one      *)
(* piece (the run of the trading engine, which is synchronous, included)   *)
(* and a command can come in only between firings or at a send.  Inside    *)
(* the job the engine is run with equal main and simple signals at one     *)
(* price, or with a failing fetch.                                         *)
(***************************************************************************)
MaxFirings == 2

Chats == {1, 2}

JobPrice == 100

(* SubscriptionRegistry, bot/subscriptions.py *)
add(registry, chat_id) == registry \cup {chat_id}

discard(registry, chat_id) == registry \ {chat_id}

snapshot(registry) == registry

(* The orders in which a for loop may go through a set *)
Orders(S) ==
    {o \in [1..Cardinality(S) -> S] :
        \A i, j \in DOMAIN o : i # j => o[i] # o[j]}

Summary(ls) == [kind |-> "summary", lines |-> ls]

Messages_SummaryToo(summary, events) == <<summary>> \o events

(* Lines 54-55: the messages of a firing *)
Messages(summary, events) == IF events = <<>> THEN <<summary>> ELSE events

(* Lines 57-60: for each chat, in order, every message in order *)
RECURSIVE Broadcast(_, _)
Broadcast(order, msgs) ==
    IF order = <<>>
    THEN <<>>
    ELSE [i \in 1..Len(msgs) |-> [chat_id |-> Head(order), text |-> msgs[i]]]
            \o Broadcast(Tail(order), msgs)

(* A firing with an empty strategy registry returns at line 47 *)
PushStrategySkip ==
    /\ jpc = "idle"
    /\ firings < MaxFirings
    /\ strategy_subscriptions = {}
    /\ firings' = firings + 1
    /\ UNCHANGED <<strategy_subscriptions, jpc, outbox, attempted, lastSendOk>>
    /\ UNCHANGED engvars
    /\ UNCHANGED notJob

(* A firing with subscribers enters the run, line 49 *)
PushStrategyRun ==
    /\ jpc = "idle"
    /\ firings < MaxFirings
    /\ strategy_subscriptions # {}
    /\ firings' = firings + 1
    /\ RunEntry
    /\ jpc' = "run"
    /\ outbox' = <<>>
    /\ attempted' = <<>>
    /\ lastSendOk' = TRUE
    /\ UNCHANGED strategy_subscriptions
    /\ UNCHANGED notJob

(* The loop bodies of the run made by the job *)
JobSymbolUpdate ==
    /\ jpc = "run"
    /\ InLoop
    /\ \E s \in Signals : BodyEffect(s, s, JobPrice, "end")
    /\ UNCHANGED notEng

JobSymbolFetchError ==
    /\ jpc = "run"
    /\ SymbolFetchError

(* The run returns; lines 54-57 choose the messages and take the snapshot *)
PushStrategyReturn ==
    /\ jpc = "run"
    /\ RunExit
    /\ \E order \in Orders(snapshot(strategy_subscriptions)) :
          outbox' = Broadcast(order, Messages(Summary(lines'), trade_events))
    /\ jpc' = "send"
    /\ UNCHANGED <<strategy_subscriptions, firings, attempted, lastSendOk>>
    /\ UNCHANGED notJob

SendMessage_StopOnFailure ==
    /\ jpc = "send"
    /\ outbox # <<>>
    /\ attempted' = Append(attempted, Head(outbox))
    /\ \E ok \in BOOLEAN :
          /\ lastSendOk' = ok
          /\ outbox' = IF ok THEN Tail(outbox) ELSE <<>>
    /\ jpc' = IF outbox' = <<>> THEN "idle" ELSE "send"
    /\ UNCHANGED <<strategy_subscriptions, firings>>
    /\ UNCHANGED engvars
    /\ UNCHANGED notJob

(* Lines 59-62: one send_message, which may raise; the loops go on either  *)
(* way and the callback returns after the last send.                       *)
SendMessage ==
    /\ jpc = "send"
    /\ outbox # <<>>
    /\ attempted' = Append(attempted, Head(outbox))
    /\ outbox' = Tail(outbox)
    /\ \E ok \in BOOLEAN : lastSendOk' = ok
    /\ jpc' = IF Tail(outbox) = <<>> THEN "idle" ELSE "send"
    /\ UNCHANGED <<strategy_subscriptions, firings>>
    /\ UNCHANGED engvars
    /\ UNCHANGED notJob

(* The /sub_strategy and /unsub_strategy commands, commands.py lines 77-85 *)
sub_strategy ==
    /\ jpc \in {"idle", "send"}
    /\ \E chat_id \in Chats :
          strategy_subscriptions' = add(strategy_subscriptions, chat_id)
    /\ UNCHANGED <<jpc, firings, outbox, attempted, lastSendOk>>
    /\ UNCHANGED engvars
    /\ UNCHANGED notJob

unsub_strategy_Live ==
    /\ jpc \in {"idle", "send"}
    /\ \E chat_id \in Chats :
          strategy_subscriptions' = discard(strategy_subscriptions, chat_id)
    /\ IF jpc = "send" /\ strategy_subscriptions' # strategy_subscriptions
       THEN outbox' = <<>> /\ jpc' = "idle"
       ELSE UNCHANGED <<jpc, outbox>>
    /\ UNCHANGED <<firings, attempted, lastSendOk>>
    /\ UNCHANGED engvars
    /\ UNCHANGED notJob

unsub_strategy ==
    /\ jpc \in {"idle", "send"}
    /\ \E chat_id \in Chats :
          strategy_subscriptions' = discard(strategy_subscriptions, chat_id)
    /\ UNCHANGED <<jpc, firings, outbox, attempted, lastSendOk>>
    /\ UNCHANGED engvars
    /\ UNCHANGED notJob

NextJobs ==
    \/ PushStrategySkip
    \/ PushStrategyRun
    \/ JobSymbolUpdate
    \/ JobSymbolFetchError
    \/ PushStrategyReturn
    \/ SendMessage
    \/ sub_strategy
    \/ unsub_strategy

SpecJobs == Init /\ [][NextJobs]_vars

(* Runs of the engine invoked so far: those completed and the one under way *)
RunsInvoked == ticks + (IF pc = "loop" THEN 1 ELSE 0)

(* C14: on every firing of the strategy job, whatever the registry holds,  *)
(* the run is invoked exactly once: the number of runs invoked equals the  *)
(* number of firings.                                                      *)
C14_RunOncePerFiring == RunsInvoked = firings

----------------------------------------------------------------------------
(***************************************************************************)
(* SimpleMACDStrategy.generate_signals, simple_strategy.py: the loop of    *)
(* lines 115-130 over the rows of the frame.  A row is given by its four   *)
(* conditions.  Lines 88-96 and 102-111 tie them: a long entry needs       *)
(* macd > macd_signal, that is macd_hist > 0, which is an exit_short       *)
(* condition, and excludes a short entry, which needs macd < macd_signal   *)
(* (mirror for the short entry).                                           *)
(***************************************************************************)
MaxBars == 4

BarConds ==
    {b \in [is_long : BOOLEAN, is_short : BOOLEAN,
            do_exit_long : BOOLEAN, do_exit_short : BOOLEAN] :
        /\ ~(b.is_long /\ b.is_short)
        /\ b.is_long => b.do_exit_short
        /\ b.is_short => b.do_exit_long}

SimpleStep_EntryFirst(cur0, b) ==
    LET c1 == IF b.is_long THEN 1 ELSE IF b.is_short THEN -1 ELSE cur0
    IN  IF c1 = 1 /\ b.do_exit_long THEN 0
        ELSE IF c1 = -1 /\ b.do_exit_short THEN 0
        ELSE c1

(* One pass of the loop body, lines 120-128 *)
SimpleStep(cur0, b) ==
    LET c1 == IF cur0 = 1 /\ b.do_exit_long THEN 0
              ELSE IF cur0 = -1 /\ b.do_exit_short THEN 0
              ELSE cur0
    IN  IF b.is_long THEN 1
        ELSE IF b.is_short THEN -1
        ELSE c1

SimpleEntry_KeepCurrent ==
    /\ bars # <<>>
    /\ bars' = <<>>
    /\ current' = current
    /\ signal_state' = <<>>

(* Entry of a call of generate_signals after an earlier one: lines 115-116 *)
SimpleEntry ==
    /\ bars # <<>>
    /\ bars' = <<>>
    /\ current' = 0
    /\ signal_state' = <<>>

(* A call of generate_signals *)
SimpleCall == SimpleEntry /\ UNCHANGED notSim

(* One iteration of the for loop, lines 117-130 *)
SimpleBar ==
    /\ Len(bars) < MaxBars
    /\ \E b \in BarConds :
         /\ bars' = Append(bars, b)
         /\ current' = SimpleStep(current, b)
         /\ signal_state' = Append(signal_state, SimpleStep(current, b))
    /\ UNCHANGED notSim

NextSimple == SimpleCall \/ SimpleBar

SpecSimple == Init /\ [][NextSimple]_vars

(* The transition of the fold as section 4.6 words it: exit first, then    *)
(* entry, long before short                                                *)
AfterExit(st, b) ==
    IF (st = 1 /\ b.do_exit_long) \/ (st = -1 /\ b.do_exit_short)
    THEN 0 ELSE st

AfterEntry(st, b) ==
    IF b.is_long THEN 1 ELSE IF b.is_short THEN -1 ELSE st

RECURSIVE FoldFromFlat(_)
FoldFromFlat(bs) ==
    IF bs = <<>> THEN 0
    ELSE AfterEntry(AfterExit(FoldFromFlat(SubSeq(bs, 1, Len(bs) - 1)),
                              bs[Len(bs)]),
                    bs[Len(bs)])

(* C15: the simple engine's output is the left fold from Flat: the signal  *)
(* emitted at bar k is the state reached from Flat by applying to bars     *)
(* 1..k, in order, "exit if the held side's exit condition holds, then     *)
(* enter Long if the long entry fires, else Short if the short entry       *)
(* fires"; every emitted signal is -1, 0 or 1.                             *)
C15_SimpleIsLeftFold ==
    /\ Len(signal_state) = Len(bars)
    /\ \A k \in DOMAIN signal_state :
          /\ signal_state[k] = FoldFromFlat(SubSeq(bars, 1, k))
          /\ signal_state[k] \in {-1, 0, 1}
    /\ current = FoldFromFlat(bars)

C15_Witness ==
    /\ Len(signal_state) = 4
    /\ signal_state = <<1, 0, -1, 1>>
    /\ bars[1].do_exit_long
    /\ ~bars[2].is_short
    /\ bars[3].do_exit_long
    /\ bars[4].do_exit_short

----------------------------------------------------------------------------
(***************************************************************************)
(* MultiTFMidtermStrategy, multi_tf_midterm_strategy.py.  cfg is a         *)
(* MultiTFConfig: the thresholds are those of lines 48-68, the spans and   *)
(* the RSI period are short ones so that a frame of a few bars shows every *)
(* case.                                                                   *)
(***************************************************************************)
cfg ==
    [macd_fast |-> 1, macd_slow |-> 3, macd_signal |-> 3,
     ema_fast |-> 1, ema_slow |-> 3, rsi_period |-> 2,
     rsi_trend_high |-> 55, rsi_trend_low |-> 45,
     rsi_reentry_up |-> 50, rsi_reentry_dn |-> 50,
     rsi_pullback_long |-> 45, rsi_pullback_short |-> 55,
     lookback_break_15m |-> 2, atr_sl_mult |-> <<5, 2>>, rr_tp1 |-> <<2, 1>>]

(* generate_signals, lines 139-182, at one row of the frame.  The row      *)
(* gives the aligned columns at the bar and at the bar before (shift(1)):  *)
(* the two trends, the 1h RSI with the minimum and maximum of its rolling  *)
(* window, macd - sig of the 1h MACD, whether the 1h close is within       *)
(* near_ratio of one of the two EMAs, fast - slow of the 15m EMAs, the 15m *)
(* RSI, and the close with the highest high and lowest low of the bars     *)
(* before it.                                                              *)
RsiLevels == {40, 60}

Gaps == {-1, 1}

Min2(a, b) == IF a <= b THEN a ELSE b

Max2(a, b) == IF a >= b THEN a ELSE b

RowInputs ==
    {r \in [trend_1d : Signals, trend_4h : Signals,
            h1_rsi : RsiLevels, h1_rsi_prev : RsiLevels,
            h1_rsi_min : RsiLevels, h1_rsi_max : RsiLevels,
            h1_gap : Gaps, h1_gap_prev : Gaps,
            h1_touched_slow : BOOLEAN,
            ema_gap : Gaps, ema_gap_prev : Gaps,
            rsi_15m : RsiLevels, rsi_15m_prev : RsiLevels,
            close : {1, 2, 3}, highest_prev : {2}, lowest_prev : {2}] :
        /\ r.h1_rsi_min <= Min2(r.h1_rsi, r.h1_rsi_prev)
        /\ r.h1_rsi_max >= Max2(r.h1_rsi, r.h1_rsi_prev)}

h1_rsi_pullback_done(r) == r.h1_rsi_min <= cfg.rsi_pullback_long

h1_rsi_cross_up(r) ==
    r.h1_rsi > cfg.rsi_reentry_up /\ r.h1_rsi_prev <= cfg.rsi_reentry_up

h1_macd_cross_up(r) == r.h1_gap > 0 /\ r.h1_gap_prev <= 0

confirm_1h_long_NoTrend4h(r) ==
    /\ r.trend_1d = 1
    /\ h1_rsi_pullback_done(r) /\ h1_rsi_cross_up(r)
    /\ h1_macd_cross_up(r) /\ r.h1_touched_slow

confirm_1h_long(r) ==
    /\ r.trend_1d = 1 /\ r.trend_4h = 1
    /\ h1_rsi_pullback_done(r) /\ h1_rsi_cross_up(r)
    /\ h1_macd_cross_up(r) /\ r.h1_touched_slow

h1_rsi_rebound_done(r) == r.h1_rsi_max >= cfg.rsi_pullback_short

h1_rsi_cross_dn(r) ==
    r.h1_rsi < cfg.rsi_reentry_dn /\ r.h1_rsi_prev >= cfg.rsi_reentry_dn

h1_macd_cross_dn(r) == r.h1_gap < 0 /\ r.h1_gap_prev >= 0

confirm_1h_short(r) ==
    /\ r.trend_1d = -1 /\ r.trend_4h = -1
    /\ h1_rsi_rebound_done(r) /\ h1_rsi_cross_dn(r)
    /\ h1_macd_cross_dn(r) /\ r.h1_touched_slow

cross_up_15m(r) == r.ema_gap > 0 /\ r.ema_gap_prev <= 0

cross_dn_15m(r) == r.ema_gap < 0 /\ r.ema_gap_prev >= 0

rsi_up_15m(r) ==
    r.rsi_15m > cfg.rsi_reentry_up /\ r.rsi_15m_prev <= cfg.rsi_reentry_up

rsi_dn_15m(r) ==
    r.rsi_15m < cfg.rsi_reentry_dn /\ r.rsi_15m_prev >= cfg.rsi_reentry_dn

break_up_15m(r) == r.close > r.highest_prev

break_dn_15m(r) == r.close < r.lowest_prev

trigger_15m_long(r) ==
    confirm_1h_long(r) /\ cross_up_15m(r) /\ rsi_up_15m(r) /\ break_up_15m(r)

trigger_15m_short(r) ==
    confirm_1h_short(r) /\ cross_dn_15m(r) /\ rsi_dn_15m(r) /\ break_dn_15m(r)

(* astype(int) *)
AsInt(b) == IF b THEN 1 ELSE 0

signal(r) == AsInt(trigger_15m_long(r)) - AsInt(trigger_15m_short(r))

(* generate_signals computes the columns of a row, once *)
EvaluateRow ==
    /\ ~row.evaluated
    /\ \E r \in RowInputs :
         row' = [evaluated         |-> TRUE,
                 input             |-> r,
                 confirm_1h_long   |-> AsInt(confirm_1h_long(r)),
                 confirm_1h_short  |-> AsInt(confirm_1h_short(r)),
                 trigger_15m_long  |-> AsInt(trigger_15m_long(r)),
                 trigger_15m_short |-> AsInt(trigger_15m_short(r)),
                 signal            |-> signal(r)]
    /\ UNCHANGED notRow

NextRow == EvaluateRow

SpecRow == Init /\ [][NextRow]_vars

(* The three stages as section 4.5 words them; dir is 1 for the long       *)
(* variant and -1 for the short one.                                       *)
Crosses(dir, prev, now, level) ==
    IF dir = 1 THEN now > level /\ ~(prev > level)
               ELSE now < level /\ ~(prev < level)

StageA(dir, r) == r.trend_1d = dir /\ r.trend_4h = dir

StageB(dir, r) ==
    /\ IF dir = 1 THEN r.h1_rsi_min <= cfg.rsi_pullback_long
                  ELSE r.h1_rsi_max >= cfg.rsi_pullback_short
    /\ Crosses(dir, r.h1_rsi_prev, r.h1_rsi,
               IF dir = 1 THEN cfg.rsi_reentry_up ELSE cfg.rsi_reentry_dn)
    /\ Crosses(dir, r.h1_gap_prev, r.h1_gap, 0)
    /\ r.h1_touched_slow

StageC(dir, r) ==
    /\ Crosses(dir, r.ema_gap_prev, r.ema_gap, 0)
    /\ Crosses(dir, r.rsi_15m_prev, r.rsi_15m,
               IF dir = 1 THEN cfg.rsi_reentry_up ELSE cfg.rsi_reentry_dn)
    /\ IF dir = 1 THEN r.close > r.highest_prev ELSE r.close < r.lowest_prev

AllStages(dir, r) == StageA(dir, r) /\ StageB(dir, r) /\ StageC(dir, r)

(* C16: at every row the entry signal is +1 exactly when stages A, B and C *)
(* all hold for the long variant, -1 exactly when all three hold for the   *)
(* short variant, and 0 otherwise; the two variants never hold together.   *)
C16_SignalIffAllStages ==
    row.evaluated =>
        /\ row.signal = 1 <=> AllStages(1, row.input)
        /\ row.signal = -1 <=> AllStages(-1, row.input)
        /\ row.signal = 0 <=>
              (~AllStages(1, row.input) /\ ~AllStages(-1, row.input))
        /\ ~(AllStages(1, row.input) /\ AllStages(-1, row.input))
        /\ ~(row.trigger_15m_long = 1 /\ row.trigger_15m_short = 1)

C16_Witness ==
    /\ row.evaluated
    /\ row.signal = -1
    /\ row.input.trend_1d = -1
    /\ row.input.trend_4h = -1
    /\ row.confirm_1h_short = 1
    /\ row.input.close = 1

----------------------------------------------------------------------------
(***************************************************************************)
(* The indicator functions on a frame of base bars, and the alignment of   *)
(* the 4h trend to the base bars, multi_tf_midterm_strategy.py lines 7-46  *)
(* and 74-125.  A series is a sequence of floats; NaN and inf are the two  *)
(* floats that are no rationals.  The base bars are consecutive and the    *)
(* first one starts a bucket; a 4h bucket holds BarsPerBucket of them      *)
(* (16 bars of 15 minutes in the program).                                 *)
(***************************************************************************)
MaxBaseBars == 6

BarsPerBucket == 2

ClosePrices == {1, 2, 3}

NaN == <<0, 0>>

Inf == <<1, 0>>

IsNum(x) == x[2] # 0

RLt(x, y) == x[1] * y[2] < y[1] * x[2]

(* Comparisons of floats: False when an operand is NaN *)
Gt(x, y) == IsNum(x) /\ IsNum(y) /\ RLt(y, x)

Lt(x, y) == IsNum(x) /\ IsNum(y) /\ RLt(x, y)

Floats(s) == [i \in DOMAIN s |-> Float(s[i])]

(* series.ewm(span=span, adjust=False).mean() at position i *)
RECURSIVE ewm(_, _, _)
ewm(s, span, i) ==
    IF i = 1 THEN s[1]
    ELSE LET alpha == Rat(2, span + 1)
         IN  RAdd(RMul(alpha, s[i]),
                  RMul(RSub(Float(1), alpha), ewm(s, span, i - 1)))

ema(s, span) == [i \in DOMAIN s |-> ewm(s, span, i)]

macd(s, fast, slow, sig) ==
    LET ema_fast == ema(s, fast)
        ema_slow == ema(s, slow)
        line     == [i \in DOMAIN s |-> RSub(ema_fast[i], ema_slow[i])]
        sigline  == ema(line, sig)
    IN  [line |-> line,
         sig  |-> sigline,
         hist |-> [i \in DOMAIN s |-> RSub(line[i], sigline[i])]]

(* delta.where(delta > 0, 0.0) and -delta.where(delta < 0, 0.0): the first *)
(* delta is NaN, which is replaced by 0.0                                  *)
gain(s, i) ==
    IF i > 1 /\ RLt(s[i - 1], s[i]) THEN RSub(s[i], s[i - 1]) ELSE Zero

loss(s, i) ==
    IF i > 1 /\ RLt(s[i], s[i - 1]) THEN RSub(s[i - 1], s[i]) ELSE Zero

RECURSIVE SumGain(_, _, _)
SumGain(s, lo, hi) ==
    IF lo > hi THEN Zero ELSE RAdd(gain(s, hi), SumGain(s, lo, hi - 1))

RECURSIVE SumLoss(_, _, _)
SumLoss(s, lo, hi) ==
    IF lo > hi THEN Zero ELSE RAdd(loss(s, hi), SumLoss(s, lo, hi - 1))

(* rolling(period, min_periods=period).mean() *)
avg_gain(s, period, i) ==
    IF i < period THEN NaN
    ELSE RDiv(SumGain(s, i - period + 1, i), Float(period))

avg_loss(s, period, i) ==
    IF i < period THEN NaN
    ELSE RDiv(SumLoss(s, i - period + 1, i), Float(period))

(* 100 - (100 / (1 + rs)) *)
RsiOf(rs) ==
    IF rs = NaN THEN NaN
    ELSE IF rs = Inf THEN Float(100)
    ELSE RSub(Float(100), RDiv(Float(100), RAdd(Float(1), rs)))

(* avg_gain / avg_loss of two float series: x / 0 is inf for x > 0 and NaN *)
(* for x = 0 (neither average is negative)                                 *)
FloatDiv(x, y) ==
    IF x = NaN \/ y = NaN THEN NaN
    ELSE IF y = Zero THEN (IF x = Zero THEN NaN ELSE Inf)
    ELSE RDiv(x, y)

(* rsi of multi_tf_midterm_strategy.py, lines 18-26 *)
rsi(s, period) ==
    [i \in DOMAIN s |->
        LET g  == avg_gain(s, period, i)
            l  == avg_loss(s, period, i)
            lr == IF l = Zero THEN NaN ELSE l
        IN  RsiOf(FloatDiv(g, lr))]

(* _calc_rsi of simple_strategy.py, macd_rsi_strategy.py, trend_strategy.py *)
calc_rsi(s, period) ==
    [i \in DOMAIN s |->
        RsiOf(FloatDiv(avg_gain(s, period, i), avg_loss(s, period, i)))]

(* resample_ohlc, the close column: the last close of every bucket that    *)
(* holds a bar; the latest bucket is there with the bars it has so far     *)
NumBuckets(n) == (n + BarsPerBucket - 1) \div BarsPerBucket

resample_close(c) ==
    [k \in 1..NumBuckets(Len(c)) |->
        c[IF k * BarsPerBucket <= Len(c) THEN k * BarsPerBucket ELSE Len(c)]]

(* trend_4h of lines 85-94, on the bucket closes *)
Trend4h(c4) ==
    LET s      == Floats(c4)
        m      == macd(s, cfg.macd_fast, cfg.macd_slow, cfg.macd_signal)
        h4_rsi == rsi(s, cfg.rsi_period)
        ef     == ema(s, cfg.ema_fast)
        es     == ema(s, cfg.ema_slow)
        long_ok(k)  == /\ Gt(m.line[k], m.sig[k]) /\ Gt(m.hist[k], Zero)
                       /\ Gt(h4_rsi[k], Float(cfg.rsi_trend_high))
                       /\ Gt(ef[k], es[k])
        short_ok(k) == /\ Lt(m.line[k], m.sig[k]) /\ Lt(m.hist[k], Zero)
                       /\ Lt(h4_rsi[k], Float(cfg.rsi_trend_low))
                       /\ Lt(ef[k], es[k])
    IN  [k \in DOMAIN c4 |->
            IF short_ok(k) THEN -1 ELSE IF long_ok(k) THEN 1 ELSE 0]

(* align_to_15m, lines 103-104: reindex with ffill, the value of the       *)
(* latest bucket that starts at or before the bar                          *)
BucketOf(i) == (i - 1) \div BarsPerBucket + 1

align_to_15m(s, n) == [i \in 1..n |-> s[BucketOf(i)]]

(* An evaluation tick: the frame fetched holds one more base bar, and the  *)
(* strategies compute their columns from it.                               *)
NewBar ==
    /\ Len(close) < MaxBaseBars
    /\ \E c \in ClosePrices :
         LET df == Append(close, c)
         IN  /\ close' = df
             /\ rsi_values' =
                   [multi_tf |-> rsi(Floats(df), cfg.rsi_period),
                    simple   |-> calc_rsi(Floats(df), cfg.rsi_period),
                    macd_rsi |-> calc_rsi(Floats(df), cfg.rsi_period),
                    trend    |-> calc_rsi(Floats(df), cfg.rsi_period)]
             /\ trend_4h' = align_to_15m(Trend4h(resample_close(df)), Len(df))
    /\ UNCHANGED notFrame

NextFrame == NewBar

SpecFrame == Init /\ [][NextFrame]_vars

RsiFunctions == {"multi_tf", "simple", "macd_rsi", "trend"}

(* C17: alignment stability.  In every evaluation the 4h trend is the same *)
(* on all base bars of a bucket, and when a further base bar of the same   *)
(* bucket arrives, the trend on the bars of that bucket is what it was in  *)
(* the evaluation before.                                                  *)
C17_AlignmentStable ==
    [][ /\ \A i, j \in DOMAIN trend_4h' :
              BucketOf(i) = BucketOf(j) => trend_4h'[i] = trend_4h'[j]
        /\ \A i \in DOMAIN trend_4h :
              BucketOf(i) = BucketOf(Len(close')) => trend_4h'[i] = trend_4h[i]
      ]_vars

(* C18: RSI clamping.  For every RSI function and every bar, when the      *)
(* rolling average loss is 0 and the rolling average gain is > 0 the RSI   *)
(* is exactly 100, and every RSI value that is a number lies in [0,100].   *)
C18_RsiClamped ==
    \A f \in RsiFunctions : \A i \in DOMAIN close :
        LET g == avg_gain(Floats(close), cfg.rsi_period, i)
            l == avg_loss(Floats(close), cfg.rsi_period, i)
            v == rsi_values[f][i]
        IN  /\ (l = Zero /\ Gt(g, Zero)) => v = Float(100)
            /\ IsNum(v) => ~RLt(v, Zero) /\ ~RLt(Float(100), v)

----------------------------------------------------------------------------
(* Properties of the run across symbols, over Spec *)

(* What a loop body does for a symbol: its fetch or a strategy fails, or   *)
(* it reaches the book update with decision ts at price p                  *)
Outcomes ==
    {[kind |-> "fail", ts |-> 0, p |-> 0]}
        \cup [kind : {"run"}, ts : Signals, p : Prices]

(* The book after the loop bodies of the symbols in order, from book and   *)
(* total, when the body of symbol s does inp[s]                            *)
RECURSIVE BookAfter(_, _, _, _)
BookAfter(order, book, total, inp) ==
    IF order = <<>> THEN book
    ELSE LET s == Head(order)
             u == UpdateBook(s, book[s], total, inp[s].ts, Float(inp[s].p))
         IN  IF inp[s].kind = "fail"
             THEN BookAfter(Tail(order), book, total, inp)
             ELSE BookAfter(Tail(order), [book EXCEPT ![s] = u.pos],
                            u.total, inp)

(* C22: symbol independence.  A loop body, whether it runs to its end or   *)
(* fails, leaves the book entry of every other symbol unchanged; and from  *)
(* the book between two runs, for every choice of what the body of each    *)
(* symbol meets (failure, or a decision at a price), the book after the    *)
(* bodies is the same in whatever order the symbols are processed.         *)
C22_SymbolIndependence ==
    [][ /\ Body =>
              \A s \in Symbols \ {cur} : POSITIONS'[s] = POSITIONS[s]
        /\ pc = "idle" =>
              \A inp \in [Symbols -> Outcomes] :
                 \A order \in Orders(Symbols) :
                    BookAfter(order, POSITIONS, TOTAL_REALIZED_PNL, inp)
                      = BookAfter(TRADE_SYMBOLS, POSITIONS,
                                  TOTAL_REALIZED_PNL, inp)
      ]_vars

C22_Witness ==
    /\ pc = "loop"
    /\ idx > 2
    /\ frame.symbol = "ETHUSDT"
    /\ frame.at = "open"
    /\ IsLong("BTCUSDT")
    /\ openCount["BTCUSDT"] = 1
    /\ closeCount["BTCUSDT"] = 0
    /\ closeCount["ETHUSDT"] = 1
    /\ ticks = 1

SymIndex(s) == CHOOSE i \in 1..Len(TRADE_SYMBOLS) : TRADE_SYMBOLS[i] = s

(* C23: the events of a run are ordered.  Events of different symbols      *)
(* appear in the order of the symbol list, and a symbol has two events in  *)
(* a run only when it reverses: its Close and then, next to it, its Open.  *)
C23_EventsOrdered ==
    \A i, j \in DOMAIN trade_events :
        i < j =>
            /\ SymIndex(trade_events[i].symbol)
                 <= SymIndex(trade_events[j].symbol)
            /\ trade_events[i].symbol = trade_events[j].symbol =>
                  /\ j = i + 1
                  /\ trade_events[i].kind = "close"
                  /\ trade_events[j].kind = "open"

C23_Witness ==
    /\ pc = "idle"
    /\ ticks = 2
    /\ Len(trade_events) = 4
    /\ trade_events[1].kind = "close" /\ trade_events[1].symbol = "BTCUSDT"
    /\ trade_events[2].kind = "open" /\ trade_events[2].symbol = "BTCUSDT"
    /\ trade_events[3].kind = "close" /\ trade_events[3].symbol = "ETHUSDT"
    /\ trade_events[4].kind = "open" /\ trade_events[4].symbol = "ETHUSDT"

SideOf(pos) == IF pos = None THEN 0 ELSE SideSign(pos)

(* C29: after every loop body that runs to its end with decision d, the    *)
(* symbol's held side is d: Long if d = 1, Short if d = -1, Flat if d = 0, *)
(* whatever the entry was before.                                          *)
C29_SideEqualsDecision ==
    [][ (Decided /\ frame'.at = "end") => SideOf(POSITIONS'[cur]) = d ]_vars

C29_Witness ==
    /\ AfterFullBody
    /\ frame.trade_signal = 1
    /\ IsLong(frame.symbol)
    /\ closeCount[frame.symbol] = 1
    /\ openCount[frame.symbol] = 2
    /\ LastEvent.kind = "open"
    /\ LastEvent.side = "LONG"

C28_RunTerminates ==
    /\ [][ pc = "loop" =>
             \/ /\ idx <= Len(TRADE_SYMBOLS)
                /\ frame'.symbol = TRADE_SYMBOLS[idx]
                /\ idx' = idx + 1
                /\ pc' = "loop"
                /\ SymbolsOf(lines') = SubSeq(TRADE_SYMBOLS, 1, idx)
             \/ /\ idx = Len(TRADE_SYMBOLS) + 1
                /\ pc' = "idle"
                /\ SymbolsOf(lines') = TRADE_SYMBOLS
                /\ lines' = Append(lines, TotalLine(TOTAL_REALIZED_PNL))
                /\ trade_events' = trade_events
         ]_vars
    /\ (pc = "loop") ~> (pc = "idle")

C28_Witness ==
    /\ pc = "idle"
    /\ ticks = 2
    /\ idx = Len(TRADE_SYMBOLS) + 1
    /\ SymbolsOf(lines) = TRADE_SYMBOLS
    /\ lines[3] = ErrorLine("BTCUSDT")
    /\ lines[4] = ErrorLine("ETHUSDT")
    /\ lines[Len(lines)].kind = "total"

----------------------------------------------------------------------------
(* The loop bodies of one run executed side by side, one per symbol.       *)
(* Each body is the code of lines 67-181 unchanged.  Its only access to    *)
(* state shared with the other bodies is the statement of line 125,        *)
(*     TOTAL_REALIZED_PNL += realized                                      *)
(* which reads the module global, adds, and stores the result: a read and  *)
(* a later write with nothing in the code that keeps another body from     *)
(* running in between.  A body is therefore two steps when it closes a     *)
(* position, split between that read and that write, and one step          *)
(* otherwise.  POSITIONS[symbol] is touched by the body of symbol only.    *)

AllAt(place) == \A s \in Symbols : wpc[s] = place

(* The writes of a body whose book update is u, from line 125's store on *)
BodyWrites(symbol, m, s, p, u) ==
    LET ts == trade_signal(s, m)
        f  == Bound(symbol, m, s, Float(p), ts, IF u.raised THEN "open" ELSE "end")
    IN  /\ POSITIONS' = [POSITIONS EXCEPT ![symbol] = u.pos]
        /\ TOTAL_REALIZED_PNL' = u.total
        /\ trade_events' = trade_events \o u.events
        /\ lines' = IF u.raised
                    THEN Append(lines, ErrorLine(symbol))
                    ELSE lines \o ReportLines(symbol, f, u)
        /\ Record(symbol, ts, u)
        /\ forkRealized' = IF u.closed
                           THEN RAdd(forkRealized, u.realized)
                           ELSE forkRealized
        /\ wpc' = [wpc EXCEPT ![symbol] = "done"]
        /\ UNCHANGED <<pc, idx, frame, ticks, forkTotal>>

(* The run starts the bodies of all symbols, lines 58-66 *)
ParStart ==
    /\ ticks < MaxTicks
    /\ AllAt("idle")
    /\ RunEntry
    /\ wpc' = [s \in Symbols |-> "ready"]
    /\ forkTotal' = TOTAL_REALIZED_PNL
    /\ forkRealized' = Zero
    /\ UNCHANGED wread
    /\ UNCHANGED notPar

(* A body whose fetch or strategy raises, lines 68-80 and 180-181 *)
WorkerFetchError ==
    \E symbol \in Symbols :
        /\ wpc[symbol] = "ready"
        /\ lines' = Append(lines, ErrorLine(symbol))
        /\ wpc' = [wpc EXCEPT ![symbol] = "done"]
        /\ UNCHANGED <<POSITIONS, TOTAL_REALIZED_PNL, pc, idx, trade_events,
                       frame, ticks, hist, wread, forkTotal, forkRealized>>
        /\ UNCHANGED notPar

(* A body up to the read of TOTAL_REALIZED_PNL in line 125 when it closes  *)
(* a position; the whole body when it does not                             *)
WorkerRead ==
    \E symbol \in Symbols, m \in Signals, s \in Signals, p \in Prices :
        LET ts == trade_signal(s, m)
            u  == UpdateBook(symbol, POSITIONS[symbol], TOTAL_REALIZED_PNL,
                             ts, Float(p))
        IN  /\ wpc[symbol] = "ready"
            /\ IF u.closed
               THEN /\ wread' = [wread EXCEPT ![symbol] =
                                   [read |-> TRUE,
                                    total |-> TOTAL_REALIZED_PNL,
                                    main_last_signal |-> m,
                                    simple_last_signal |-> s,
                                    last_price |-> p]]
                    /\ wpc' = [wpc EXCEPT ![symbol] = "read"]
                    /\ UNCHANGED <<engvars, forkTotal, forkRealized>>
               ELSE /\ BodyWrites(symbol, m, s, p, u)
                    /\ UNCHANGED wread
            /\ UNCHANGED notPar

(* The rest of a closing body: the store of line 125 with the value read   *)
(* before, then lines 127-181                                              *)
WorkerWrite ==
    \E symbol \in Symbols :
        LET r  == wread[symbol]
            ts == trade_signal(r.simple_last_signal, r.main_last_signal)
            u  == UpdateBook(symbol, POSITIONS[symbol], r.total, ts,
                             Float(r.last_price))
        IN  /\ wpc[symbol] = "read"
            /\ BodyWrites(symbol, r.main_last_signal, r.simple_last_signal,
                          r.last_price, u)
            /\ wread' = [wread EXCEPT ![symbol] = NoRead]
            /\ UNCHANGED notPar

(* All bodies are done: lines 183-185 *)
ParJoin ==
    /\ pc = "loop"
    /\ AllAt("done")
    /\ lines' = Append(lines, TotalLine(TOTAL_REALIZED_PNL))
    /\ pc' = "idle"
    /\ ticks' = ticks + 1
    /\ wpc' = [s \in Symbols |-> "idle"]
    /\ UNCHANGED <<POSITIONS, TOTAL_REALIZED_PNL, idx, trade_events, frame,
                   hist, wread, forkTotal, forkRealized>>
    /\ UNCHANGED notPar

NextParallel ==
    \/ ParStart
    \/ WorkerFetchError
    \/ WorkerRead
    \/ WorkerWrite
    \/ ParJoin

SpecParallel == Init /\ [][NextParallel]_vars

----------------------------------------------------------------------------
(* The base frame with its timestamps and OHLCV columns, its resampling to *)
(* a higher timeframe, the alignment of the resampled rows back to the     *)
(* base index, and the breakout columns of generate_signals.  A timestamp  *)
(* is a number of base intervals; a bucket of the higher timeframe holds   *)
(* BarsPerBucket of them and is labelled by its start.  An exchange that   *)
(* was down leaves a gap in the timestamps, which can span a whole bucket. *)

MaxOhlcBars == 5

BarShapes ==
    {[open |-> Float(1), high |-> Float(2), low |-> Float(1),
      close |-> Float(2), volume |-> Float(1)],
     [open |-> Float(2), high |-> Float(3), low |-> Float(2),
      close |-> Float(3), volume |-> Float(2)],
     [open |-> Float(3), high |-> Float(3), low |-> Float(1),
      close |-> Float(1), volume |-> Float(1)]}

Steps == {1, 2 * BarsPerBucket}

SetMax(S) == CHOOSE x \in S : \A y \in S : ~RLt(x, y)

SetMin(S) == CHOOSE x \in S : \A y \in S : ~RLt(y, x)

IntMax(S) == CHOOSE x \in S : \A y \in S : y <= x

IntMin(S) == CHOOSE x \in S : \A y \in S : x <= y

BucketStart(t) == (t \div BarsPerBucket) * BarsPerBucket

(* The positions of the bars of df in the bucket that starts at b *)
MembersOf(df, b) == {i \in DOMAIN df : BucketStart(df[i].t) = b}

aggregate_CloseFirst(df, I) ==
    IF I = {}
    THEN [open |-> NaN, high |-> NaN, low |-> NaN, close |-> NaN,
          volume |-> Zero]
    ELSE [open   |-> df[IntMin(I)].open,
          high   |-> SetMax({df[i].high : i \in I}),
          low    |-> SetMin({df[i].low : i \in I}),
          close  |-> df[IntMin(I)].close,
          volume |-> RSum([i \in I |-> df[i].volume], I)]

(* .agg({"open": "first", "high": "max", "low": "min", "close": "last",    *)
(* "volume": "sum"}) over the bars at positions I of one bin; for a bin    *)
(* without bars first, max, min and last are NaN and the sum is 0          *)
aggregate(df, I) ==
    IF I = {}
    THEN [open |-> NaN, high |-> NaN, low |-> NaN, close |-> NaN,
          volume |-> Zero]
    ELSE [open   |-> df[IntMin(I)].open,
          high   |-> SetMax({df[i].high : i \in I}),
          low    |-> SetMin({df[i].low : i \in I}),
          close  |-> df[IntMax(I)].close,
          volume |-> RSum([i \in I |-> df[i].volume], I)]

HasNaN(r) ==
    \E x \in {r.open, r.high, r.low, r.close, r.volume} : ~IsNum(x)

NotHasNaN(r) == ~HasNaN(r)

(* .dropna(): the rows without a NaN in any column *)
dropna(rows) == SelectSeq(rows, NotHasNaN)

(* resample_ohlc, lines 38-46: one bin per bucket from the bucket of the   *)
(* first bar to the bucket of the last, aggregated, NaN rows dropped       *)
resample_ohlc(df) ==
    IF df = <<>> THEN <<>>
    ELSE LET first == BucketStart(df[1].t) \div BarsPerBucket
             last  == BucketStart(df[Len(df)].t) \div BarsPerBucket
             bins  == [k \in 1..(last - first + 1) |->
                          LET b == (first + k - 1) * BarsPerBucket
                              a == aggregate(df, MembersOf(df, b))
                          IN  [start |-> b, open |-> a.open, high |-> a.high,
                               low |-> a.low, close |-> a.close,
                               volume |-> a.volume]]
         IN  dropna(bins)

NoBucket == [start |-> -1, close |-> NaN]

reindex_bfill(rows, index) ==
    [i \in DOMAIN index |->
        LET K == {k \in DOMAIN rows : rows[k].start >= index[i]}
        IN  IF K = {} THEN NoBucket
            ELSE [start |-> rows[IntMin(K)].start,
                  close |-> rows[IntMin(K)].close]]

(* s.reindex(df_15m.index, method="ffill"), lines 103-104 (and lines       *)
(* 109-111 of macd_rsi_strategy.py): at each label of the new index the    *)
(* row of the last label of the old index that is not after it, NaN when   *)
(* there is none.  The row's own label is kept beside the value.           *)
reindex_ffill(rows, index) ==
    [i \in DOMAIN index |->
        LET K == {k \in DOMAIN rows : rows[k].start <= index[i]}
        IN  IF K = {} THEN NoBucket
            ELSE [start |-> rows[IntMax(K)].start,
                  close |-> rows[IntMax(K)].close]]

(* rolling(N, min_periods=1).max() and .min() *)
rolling_max(s, N) ==
    [k \in DOMAIN s |-> SetMax({s[j] : j \in Max2(1, k - N + 1)..k})]

rolling_min(s, N) ==
    [k \in DOMAIN s |-> SetMin({s[j] : j \in Max2(1, k - N + 1)..k})]

shift_None(s) == s

(* .shift(1) *)
shift(s) == [i \in DOMAIN s |-> IF i = 1 THEN NaN ELSE s[i - 1]]

(* .fillna(method='ffill') *)
RECURSIVE ffill(_)
ffill(s) ==
    IF Len(s) <= 1 THEN s
    ELSE LET front == ffill(SubSeq(s, 1, Len(s) - 1))
             x     == s[Len(s)]
         IN  Append(front, IF IsNum(x) THEN x ELSE front[Len(front)])

Column(df, name) == [i \in DOMAIN df |-> df[i][name]]

(* lines 136-137 and 172-173 *)
highest_prev(df) ==
    ffill(shift(rolling_max(Column(df, "high"), cfg.lookback_break_15m)))

lowest_prev(df) ==
    ffill(shift(rolling_min(Column(df, "low"), cfg.lookback_break_15m)))

(* An evaluation tick: the frame fetched holds one more base bar, after a  *)
(* gap or not, and generate_signals computes its columns from it.          *)
NewOhlcBar ==
    /\ Len(df_15m) < MaxOhlcBars
    /\ \E shape \in BarShapes, step \in Steps :
         LET t  == IF df_15m = <<>> THEN step - 1
                   ELSE df_15m[Len(df_15m)].t + step
             df == Append(df_15m,
                          [t |-> t, open |-> shape.open, high |-> shape.high,
                           low |-> shape.low, close |-> shape.close,
                           volume |-> shape.volume])
             hp == highest_prev(df)
             lp == lowest_prev(df)
         IN  /\ df_15m' = df
             /\ df_4h' = resample_ohlc(df)
             /\ aligned' = reindex_ffill(resample_ohlc(df), Column(df, "t"))
             /\ prior_extremes' = [up |-> hp, dn |-> lp]
             /\ breakouts' =
                   [up |-> [i \in DOMAIN df |-> Gt(df[i].close, hp[i])],
                    dn |-> [i \in DOMAIN df |-> Lt(df[i].close, lp[i])]]
    /\ UNCHANGED notOhlc

NextOhlc == NewOhlcBar

SpecOhlc == Init /\ [][NextOhlc]_vars

Starts(rows) == {rows[k].start : k \in DOMAIN rows}

(* C24: resampling.  Every row of the resampled frame is a bucket with     *)
(* member bars: its open is the first member's open, its high the maximum  *)
(* of the members' highs, its low the minimum of their lows, its close the *)
(* last member's close and its volume the sum of their volumes.  Every     *)
(* bucket with a member bar has exactly one row, rows are in bucket order, *)
(* and a bucket without member bars has no row.                            *)
C24_Resampling ==
    /\ \A k \in DOMAIN df_4h :
          LET r == df_4h[k]
              I == MembersOf(df_15m, r.start)
          IN  /\ I # {}
              /\ r.open = df_15m[IntMin(I)].open
              /\ \E i \in I : r.high = df_15m[i].high
              /\ \A i \in I : ~RLt(r.high, df_15m[i].high)
              /\ \E i \in I : r.low = df_15m[i].low
              /\ \A i \in I : ~RLt(df_15m[i].low, r.low)
              /\ r.close = df_15m[IntMax(I)].close
              /\ r.volume = RSum([i \in I |-> df_15m[i].volume], I)
    /\ \A i \in DOMAIN df_15m :
          Cardinality({k \in DOMAIN df_4h :
                          df_4h[k].start = BucketStart(df_15m[i].t)}) = 1
    /\ \A k, l \in DOMAIN df_4h : k < l => df_4h[k].start < df_4h[l].start

C24_Witness ==
    /\ Len(df_15m) = MaxOhlcBars
    /\ \E k \in DOMAIN df_4h :
          LET r == df_4h[k]
              I == MembersOf(df_15m, r.start)
          IN  /\ Cardinality(I) > 1
              /\ r.close # df_15m[IntMin(I)].close
              /\ r.high # df_15m[IntMin(I)].high
              /\ r.low # df_15m[IntMax(I)].low
              /\ r.open # df_15m[IntMax(I)].open
              /\ r.volume = Float(3)
    /\ \E k \in DOMAIN df_4h :
          /\ k > 1
          /\ df_4h[k].start > df_4h[k - 1].start + BarsPerBucket

(* C25: forward-fill alignment.  At every base timestamp t the aligned     *)
(* value is the value of a resampled bucket whose start is not after t,    *)
(* and no resampled bucket starts after that one and not after t: it is    *)
(* the latest bucket with start <= t, never a bucket that starts after t.  *)
C25_ForwardFill ==
    \A i \in DOMAIN df_15m :
        LET t == df_15m[i].t
            a == aligned[i]
        IN  /\ a.start <= t
            /\ \E k \in DOMAIN df_4h :
                  /\ df_4h[k].start = a.start
                  /\ df_4h[k].close = a.close
            /\ \A k \in DOMAIN df_4h :
                  df_4h[k].start <= t => df_4h[k].start <= a.start

C25_Witness ==
    /\ Len(df_4h) >= 3
    /\ \E i \in DOMAIN df_15m :
          /\ \E k \in DOMAIN df_4h :
                /\ df_4h[k].start > df_15m[i].t
                /\ df_4h[k].close # aligned[i].close
          /\ \E k \in DOMAIN df_4h :
                /\ df_4h[k].start < aligned[i].start
                /\ df_4h[k].close # aligned[i].close
          /\ aligned[i].start < df_15m[i].t

(* The bars before bar i that the breakout looks at *)
BarsBefore(i) == Max2(1, i - cfg.lookback_break_15m)..(i - 1)

(* C26: Stage C breakout.  At every bar that has an earlier bar, the long  *)
(* breakout holds exactly when the bar's close is strictly greater than    *)
(* the high of each of the N bars before it (all earlier bars when there   *)
(* are fewer than N), the bar's own high not counted; the short breakout   *)
(* holds exactly when its close is strictly less than the low of each of   *)
(* them.                                                                   *)
C26_Breakout ==
    \A i \in DOMAIN df_15m :
        i > 1 =>
            /\ breakouts.up[i] <=>
                  \A j \in BarsBefore(i) : RLt(df_15m[j].high, df_15m[i].close)
            /\ breakouts.dn[i] <=>
                  \A j \in BarsBefore(i) : RLt(df_15m[i].close, df_15m[j].low)

C26_Witness ==
    /\ Len(df_15m) = MaxOhlcBars
    /\ \E i \in DOMAIN df_15m :
          /\ i > cfg.lookback_break_15m + 1
          /\ breakouts.up[i]
          /\ df_15m[i].high = df_15m[i].close
          /\ \E j \in 1..(i - 1) : df_15m[j].high = df_15m[i].close
    /\ \E i \in DOMAIN df_15m :
          /\ i > 1
          /\ breakouts.dn[i]
    /\ \E i \in DOMAIN df_15m :
          /\ i > 1
          /\ ~breakouts.up[i]
          /\ df_15m[i - 1].high = df_15m[i].close

----------------------------------------------------------------------------
(* The stop and target columns of generate_signals, lines 184-199, at one  *)
(* row of the frame: the row's signal as lines 139-182 compute it, its     *)
(* close and the aligned 1h ATR.  The ATR is a mean of true ranges, which  *)
(* are not negative; it is 0 when the hourly bars of its window are flat.  *)

AtrValues == {Zero, <<1, 2>>, Float(1)}

sl_long_Above(c, atr_1h) == RAdd(c, RMul(cfg.atr_sl_mult, atr_1h))

sl_long(c, atr_1h) == RSub(c, RMul(cfg.atr_sl_mult, atr_1h))

tp1_long(c, atr_1h) == RAdd(c, RMul(cfg.rr_tp1, RSub(c, sl_long(c, atr_1h))))

sl_short(c, atr_1h) == RAdd(c, RMul(cfg.atr_sl_mult, atr_1h))

tp1_short(c, atr_1h) == RSub(c, RMul(cfg.rr_tp1, RSub(sl_short(c, atr_1h), c)))

(* df['sl_price'] = np.nan, then the rows of long_idx and of short_idx *)
sl_price(e, c, atr_1h) ==
    IF e = 1 THEN sl_long(c, atr_1h)
    ELSE IF e = -1 THEN sl_short(c, atr_1h)
    ELSE NaN

tp1_price(e, c, atr_1h) ==
    IF e = 1 THEN tp1_long(c, atr_1h)
    ELSE IF e = -1 THEN tp1_short(c, atr_1h)
    ELSE NaN

(* generate_signals computes the signal, sl_price and tp1_price of a row *)
EvaluateLevels ==
    /\ ~levels.evaluated
    /\ \E r \in RowInputs, a \in AtrValues :
         levels' = [evaluated |-> TRUE,
                    input     |-> r,
                    h1_atr    |-> a,
                    signal    |-> signal(r),
                    sl_price  |-> sl_price(signal(r), Float(r.close), a),
                    tp1_price |-> tp1_price(signal(r), Float(r.close), a)]
    /\ UNCHANGED notLevel

NextLevels == EvaluateLevels

SpecLevels == Init /\ [][NextLevels]_vars

(* C27: stop and target levels.  On a row with entry +1 the stop is the    *)
(* close minus 2.5 ATR(1h) and the target the close plus 2 times the       *)
(* distance from the stop to the close, so stop < close < target when the  *)
(* ATR is positive; on a row with entry -1 the stop is the close plus 2.5  *)
(* ATR(1h) and the target the close minus 2 times the distance, so         *)
(* target < close < stop; on a row with entry 0 neither is defined (NaN).  *)
C27_StopTargetLevels ==
    levels.evaluated =>
        LET c  == Float(levels.input.close)
            a  == levels.h1_atr
            sl == levels.sl_price
            tp == levels.tp1_price
        IN  /\ levels.signal = 1 =>
                  /\ sl = RSub(c, RMul(<<5, 2>>, a))
                  /\ tp = RAdd(c, RMul(Float(2), RSub(c, sl)))
                  /\ RLt(Zero, a) => (RLt(sl, c) /\ RLt(c, tp))
            /\ levels.signal = -1 =>
                  /\ sl = RAdd(c, RMul(<<5, 2>>, a))
                  /\ tp = RSub(c, RMul(Float(2), RSub(sl, c)))
                  /\ RLt(Zero, a) => (RLt(tp, c) /\ RLt(c, sl))
            /\ levels.signal = 0 => (sl = NaN /\ tp = NaN)

C27_Witness ==
    /\ levels.evaluated
    /\ levels.signal = 1
    /\ levels.input.close = 3
    /\ levels.h1_atr = <<1, 2>>
    /\ levels.sl_price = <<7, 4>>
    /\ levels.tp1_price = <<11, 2>>

----------------------------------------------------------------------------
(* Properties of the broadcasts, over SpecJobs *)

(* The texts of the sends of seq that go to chat_id, in order *)
RECURSIVE TextsTo(_, _)
TextsTo(seq, chat_id) ==
    IF seq = <<>> THEN <<>>
    ELSE (IF Head(seq).chat_id = chat_id THEN <<Head(seq).text>> ELSE <<>>)
            \o TextsTo(Tail(seq), chat_id)

Recipients(seq) == {seq[i].chat_id : i \in DOMAIN seq}

(* The sends of the broadcast of the last firing that ran: those attempted *)
(* and those still to be attempted                                         *)
BroadcastSends == attempted \o outbox

ReturnStep == jpc = "run" /\ jpc' = "send"

(* C33: strategy broadcast content.  When the run returns, the sends       *)
(* queued for each subscriber are, when the run returned trade events,     *)
(* every trade event in event order and nothing else, and when it returned *)
(* none, the summary text once; and each of these sends is attempted, in   *)
(* that order, nothing being added to or taken from them while the         *)
(* broadcast goes on.                                                      *)
C33_BroadcastContent ==
    [][ /\ ReturnStep =>
              \A chat_id \in strategy_subscriptions :
                 TextsTo(outbox', chat_id) =
                    IF trade_events' # <<>>
                    THEN trade_events'
                    ELSE <<Summary(lines')>>
        /\ jpc = "send" =>
              /\ attempted' \o outbox' = BroadcastSends
              /\ Len(attempted') >= Len(attempted)
              /\ (jpc' = "idle") = (outbox' = <<>>)
      ]_vars

C33_Witness ==
    /\ jpc = "idle"
    /\ firings = 2
    /\ Len(trade_events) = 2
    /\ trade_events[1].kind = "close"
    /\ trade_events[2].kind = "open"
    /\ Recipients(attempted) = Chats
    /\ \A chat_id \in Chats : TextsTo(attempted, chat_id) = trade_events

(* C35: snapshot isolation.  The recipients of a broadcast are the         *)
(* subscribers when its send loop starts.  A subscribe or unsubscribe      *)
(* command that comes in during the broadcast changes the registry, which  *)
(* the next broadcast uses, and leaves the sends attempted and the sends   *)
(* still to be attempted as they are: the broadcast goes on to the same    *)
(* recipients.                                                             *)
C35_SnapshotIsolation ==
    [][ /\ ReturnStep =>
              /\ Recipients(outbox') = strategy_subscriptions
              /\ strategy_subscriptions' = strategy_subscriptions
        /\ (jpc = "send" /\ strategy_subscriptions' # strategy_subscriptions) =>
              /\ outbox' = outbox
              /\ attempted' = attempted
              /\ jpc' = "send"
        /\ jpc = "send" =>
              Recipients(attempted' \o outbox') = Recipients(BroadcastSends)
      ]_vars

C35_Witness ==
    /\ jpc = "send"
    /\ firings = 2
    /\ attempted # <<>>
    /\ outbox # <<>>
    /\ Recipients(BroadcastSends) = {1}
    /\ strategy_subscriptions = {2}
    /\ Recipients(outbox) = {1}

----------------------------------------------------------------------------
(* The scheduled price job, push_price of bot/jobs.py lines 25-43, with    *)
(* the commands of its registry, beside the strategy job.  The two jobs    *)
(* and the commands are callbacks of the same asyncio loop: each runs      *)
(* without interruption up to an await of send_message, where any of the   *)
(* others may run.  MaxFirings bounds the firings of both jobs together.   *)

PriceMessage ==
    [kind |-> "price",
     prices |-> [s \in Symbols |-> FormatFixed(Float(JobPrice), 2)]]

FiringsLeft == firings + pfirings < MaxFirings

(* Lines 26-27: a firing with an empty price registry returns *)
PushPriceSkip ==
    /\ ppc = "idle"
    /\ jpc # "run"
    /\ FiringsLeft
    /\ price_subscriptions = {}
    /\ pfirings' = pfirings + 1
    /\ UNCHANGED <<price_subscriptions, ppc, poutbox, pattempted, pLastSendOk>>
    /\ UNCHANGED notPrice

(* Lines 28-32: get_market_snapshot raises and the callback returns *)
PushPriceFetchError ==
    /\ ppc = "idle"
    /\ jpc # "run"
    /\ FiringsLeft
    /\ price_subscriptions # {}
    /\ pfirings' = pfirings + 1
    /\ UNCHANGED <<price_subscriptions, ppc, poutbox, pattempted, pLastSendOk>>
    /\ UNCHANGED notPrice

(* Lines 29-39: the message is built and the snapshot of the registry taken *)
PushPriceStart ==
    /\ ppc = "idle"
    /\ jpc # "run"
    /\ FiringsLeft
    /\ price_subscriptions # {}
    /\ pfirings' = pfirings + 1
    /\ \E order \in Orders(snapshot(price_subscriptions)) :
          poutbox' = Broadcast(order, <<PriceMessage>>)
    /\ pattempted' = <<>>
    /\ pLastSendOk' = TRUE
    /\ ppc' = "send"
    /\ UNCHANGED price_subscriptions
    /\ UNCHANGED notPrice

(* Lines 40-43: one send_message, which may raise; the loop goes on either *)
(* way and the callback returns after the last send.                       *)
PriceSendMessage ==
    /\ ppc = "send"
    /\ jpc # "run"
    /\ poutbox # <<>>
    /\ pattempted' = Append(pattempted, Head(poutbox))
    /\ poutbox' = Tail(poutbox)
    /\ \E ok \in BOOLEAN : pLastSendOk' = ok
    /\ ppc' = IF Tail(poutbox) = <<>> THEN "idle" ELSE "send"
    /\ UNCHANGED <<price_subscriptions, pfirings>>
    /\ UNCHANGED notPrice

(* The /sub_price and /unsub_price commands, commands.py lines 67-75 *)
sub_price ==
    /\ jpc # "run"
    /\ \E chat_id \in Chats :
          price_subscriptions' = add(price_subscriptions, chat_id)
    /\ UNCHANGED <<ppc, pfirings, poutbox, pattempted, pLastSendOk>>
    /\ UNCHANGED notPrice

unsub_price ==
    /\ jpc # "run"
    /\ \E chat_id \in Chats :
          price_subscriptions' = discard(price_subscriptions, chat_id)
    /\ UNCHANGED <<ppc, pfirings, poutbox, pattempted, pLastSendOk>>
    /\ UNCHANGED notPrice

NextPush ==
    \/ FiringsLeft /\ PushStrategySkip
    \/ FiringsLeft /\ PushStrategyRun
    \/ JobSymbolUpdate
    \/ JobSymbolFetchError
    \/ PushStrategyReturn
    \/ SendMessage
    \/ sub_strategy
    \/ unsub_strategy
    \/ PushPriceSkip
    \/ PushPriceFetchError
    \/ PushPriceStart
    \/ PriceSendMessage
    \/ sub_price
    \/ unsub_price

SpecPush == Init /\ [][NextPush]_vars

(* C34: send-failure isolation.  In both jobs, a send that raises takes    *)
(* only its own message off the sends still to be attempted, and the       *)
(* callback stays in its send loop unless that was the last one; no step   *)
(* taken during a broadcast drops a send that is still to be attempted,    *)
(* and a callback leaves its send loop only when every send of the         *)
(* broadcast has been attempted.                                           *)
C34_SendFailureIsolation ==
    [][ /\ (jpc = "send" /\ attempted' # attempted /\ ~lastSendOk') =>
              /\ attempted' = Append(attempted, Head(outbox))
              /\ outbox' = Tail(outbox)
              /\ jpc' = IF outbox' = <<>> THEN "idle" ELSE "send"
        /\ (ppc = "send" /\ pattempted' # pattempted /\ ~pLastSendOk') =>
              /\ pattempted' = Append(pattempted, Head(poutbox))
              /\ poutbox' = Tail(poutbox)
              /\ ppc' = IF poutbox' = <<>> THEN "idle" ELSE "send"
        /\ jpc = "send" =>
              /\ outbox # <<>>
              /\ attempted' \o outbox' = attempted \o outbox
              /\ jpc' = "idle" => outbox' = <<>>
        /\ ppc = "send" =>
              /\ poutbox # <<>>
              /\ pattempted' \o poutbox' = pattempted \o poutbox
              /\ ppc' = "idle" => poutbox' = <<>>
      ]_vars

C34_Witness ==
    /\ jpc = "send"
    /\ ~lastSendOk
    /\ attempted # <<>>
    /\ outbox # <<>>
    /\ ppc = "send"
    /\ ~pLastSendOk
    /\ Len(pattempted) = 1
    /\ Len(poutbox) = 1

----------------------------------------------------------------------------
(* Properties of the simple strategy's states, over SpecSimple *)

(* The long entry fired at bar s and from bar s + 1 to bar t neither the   *)
(* long exit condition held nor the short entry fired                      *)
LongSince(s, t) ==
    /\ bars[s].is_long
    /\ \A u \in (s + 1)..t : ~bars[u].do_exit_long /\ ~bars[u].is_short

ShortSince(s, t) ==
    /\ bars[s].is_short
    /\ \A u \in (s + 1)..t : ~bars[u].do_exit_short /\ ~bars[u].is_long

(* C32: the state emitted at bar t is Long only if the long entry fired at *)
(* a bar s <= t and at no bar after s up to t the long exit condition held *)
(* or the short entry fired, and Short only in the mirror case; and at a   *)
(* bar where an entry fires the state is that entry's side even when the   *)
(* exit condition of that side holds on the same bar.                      *)
C32_LongOnlySinceEntry ==
    \A t \in DOMAIN signal_state :
        /\ signal_state[t] = 1 => \E s \in 1..t : LongSince(s, t)
        /\ signal_state[t] = -1 => \E s \in 1..t : ShortSince(s, t)
        /\ bars[t].is_long => signal_state[t] = 1
        /\ bars[t].is_short => signal_state[t] = -1

C32_Witness ==
    /\ Len(signal_state) = 3
    /\ signal_state = <<1, 1, 0>>
    /\ bars[1].is_long
    /\ bars[1].do_exit_long
    /\ ~bars[2].is_long
    /\ bars[3].do_exit_long

----------------------------------------------------------------------------
(* Successive calls of the simple strategy, as the engine makes them, one  *)
(* per symbol and run (trading_engine.py lines 76-77), each on the frame   *)
(* fetched for it.  The frame and the simple_signal column that one        *)
(* earlier call returned are kept, for frames of up to MaxKept bars, with  *)
(* the number of calls entered since, counted up to 2.                     *)

MaxKept == 2

(* A call returns at lines 132-134 and the next call is entered *)
SimpleNextCall ==
    /\ SimpleEntry
    /\ returned' \in
          IF returned.kept
          THEN {[returned EXCEPT !.since = Min2(@ + 1, 2)]}
          ELSE {returned} \cup
               (IF Len(bars) <= MaxKept
                THEN {[kept |-> TRUE, bars |-> bars,
                       simple_signal |-> signal_state, since |-> 1]}
                ELSE {})
    /\ UNCHANGED notCalls

NextCalls == SimpleNextCall \/ SimpleBar

SpecCalls == Init /\ [][NextCalls]_vars

(* C31: the simple strategy keeps no state between calls.  Every call      *)
(* starts from Flat with an empty output, whatever state the call before   *)
(* it ended in; and a call on the bar sequence of an earlier call returns  *)
(* the signal sequence that call returned, whatever calls were made in     *)
(* between.                                                                *)
C31_NoStateBetweenCalls ==
    [][ /\ (bars # <<>> /\ bars' = <<>>) =>
              (current' = 0 /\ signal_state' = <<>>)
        /\ Len(bars') = 1 => signal_state' = <<SimpleStep(0, bars'[1])>>
        /\ (returned'.kept /\ bars' = returned'.bars) =>
              signal_state' = returned'.simple_signal
      ]_vars

C31_Witness ==
    /\ returned.kept
    /\ returned.since = 2
    /\ Len(bars) = 2
    /\ bars = returned.bars
    /\ signal_state = <<0, 1>>
    /\ ~bars[1].do_exit_long
    /\ ~bars[1].is_long

============================================================================
